---- MODULE Spec2Model ----
(***************************************************************************)
(* The authoritative game session of src/server/index.js (class Game and   *)
(* the socket handlers of io.on('connection')): the phase/timer machine,   *)
(* the night-action ledger, the night resolver, the lynch resolver and the *)
(* win-condition evaluator.                                                *)
(*                                                                         *)
(* A session is one JavaScript object; every handler runs to completion on *)
(* the single-threaded event loop, so each handler, timer tick and deferred*)
(* NPC callback segment (the code between two awaits) is one atomic action.*)
(* The methods of Game are written as operators from a game record g to    *)
(* the game record(s) after the call, so that a handler is the composition *)
(* of the calls it makes.                                                  *)
(***************************************************************************)
EXTENDS Integers, FiniteSets, Sequences, TLC

----------------------------------------------------------------------------
(* Bounds of the model *)

\* number of player ids the session can hand out (join_game / add_npc)
NumPlayers == 3
\* startNight is not entered once round has reached MaxRound
MaxRound == 2
\* number of client submissions and oracle decisions of one behaviour
MaxInputs == 2
\* number of NPCs the host adds
MaxNPCs == 1
\* settings.nightTime / discussionTime / votingTime, in seconds
PhaseSeconds == 2
\* number of players of the rosters the resolvers are run on
RosterSize == 5
\* number of night_action / day_vote events accepted in a resolver run
MaxSubmissions == 4
\* number of host and player events after a game that an execution ended
RematchInputs == 3
\* number of chat_message and night_action events of a chat session
ChatInputs == 2
OrderInputs == 3
JailInputs == 3
\* players in the lobby when roles are assigned
RolePlayers == 4
\* largest count of one role in a roleConfig
MaxCount == 2
\* number of night_action events and NPC timeouts in a night of the ledger
LedgerInputs == 2

----------------------------------------------------------------------------
(* Values *)

\* JavaScript null (constructor: jailedPlayerId = null, interval = null)
Null == 0
\* JavaScript undefined (a field that is absent, e.g. actorId of an NPC entry)
Undefined == 0 - 1

PlayerIds == 1 .. NumPlayers
\* an id a client supplies that no roster member ever had
UnknownId == NumPlayers + RosterSize + 1
\* the player that created the session: game.host
Host == 1

Phases == {"LOBBY", "NIGHT", "DAY_DISCUSS", "DAY_VOTE", "GAME_OVER"}

Roles == {"Investigator", "Lookout", "Doctor", "Citizen", "Jailor",
          "Vampire", "Vampire Framer", "Jester"}

\* the roleAlignments table of assignRoles and change_player_role
roleAlignments(role) ==
  CASE role \in {"Investigator", "Lookout", "Doctor", "Citizen", "Jailor"} -> "good"
    [] role \in {"Vampire", "Vampire Framer"} -> "evil"
    [] role = "Jester" -> "neutral"
    [] OTHER -> "good"

isVampireRole(role) == role = "Vampire" \/ role = "Vampire Framer"

\* Game.addPlayer / Game.addNPC: the player object pushed on the roster
newPlayer(npc) ==
  [role |-> "null", alignment |-> "null", alive |-> TRUE, isTurned |-> FALSE,
   healsRemaining |-> Undefined, isNPC |-> npc, inRoster |-> TRUE]

\* the key under which a Vampire Framer's FRAME entry is stored: id + '_frame'
FrameOffset == 100
frameKey(p) == p + FrameOffset

----------------------------------------------------------------------------
(* State: the fields of one Game object, the timers of the runtime and the *)
(* deferred callbacks                                                      *)

VARIABLES
  state,              \* this.state
  round,              \* this.round
  players,            \* the player objects by id; inRoster: still in this.players
  nightActions,       \* this.nightActions: key -> [type, actorId, targetId]
  votes,              \* this.votes: voterId -> targetId
  jailedPlayerId,     \* this.jailedPlayerId
  jailorId,           \* this.jailorId
  jailorPendingDeath, \* this.jailorPendingDeath
  framedPlayers,      \* this.framedPlayers (set of framed target ids)
  investigationResults, \* the private results the last resolveNight sent, by key
  winner,             \* this.winner
  logs,               \* this.logs, as the set of <<round, line kind>> pushed
  timer,              \* this.timer
  interval,           \* this.interval: handle of the last setInterval
  timerCallback,      \* this.timerCallback
  intervals,          \* the runtime's live intervals: [id, cb]
  npcPending,         \* the runtime's pending NPC callbacks
  npcJoining,         \* add_npc handlers suspended in await game.addNPC()
  nextId,             \* next player id to hand out
  crashed,            \* an exception escaped a handler: the process is gone
  nightRuns,          \* history: resolveNight calls since the last startNight
  voteRuns,           \* history: resolveVoting calls since the last startDayVote
  gameChat,           \* this.gameChat: the chat messages [senderId, isVampireChat]
  inputs              \* submissions and decisions still allowed by MaxInputs

vars == <<state, round, players, nightActions, votes, jailedPlayerId, jailorId,
          jailorPendingDeath, framedPlayers, investigationResults, winner, logs,
          timer, interval, timerCallback, intervals, npcPending, npcJoining, nextId, crashed,
          nightRuns, voteRuns, gameChat, inputs>>

\* the game as one record
G == [state |-> state, round |-> round, players |-> players,
      nightActions |-> nightActions, votes |-> votes,
      jailedPlayerId |-> jailedPlayerId, jailorId |-> jailorId,
      jailorPendingDeath |-> jailorPendingDeath,
      framedPlayers |-> framedPlayers,
      investigationResults |-> investigationResults, winner |-> winner, logs |-> logs,
      timer |-> timer, interval |-> interval, timerCallback |-> timerCallback,
      intervals |-> intervals, npcPending |-> npcPending,
      npcJoining |-> npcJoining, nextId |-> nextId, crashed |-> crashed,
      nightRuns |-> nightRuns, voteRuns |-> voteRuns, gameChat |-> gameChat,
      inputs |-> inputs]

\* the next state is the game record g
Becomes(g) ==
  /\ state' = g.state
  /\ round' = g.round
  /\ players' = g.players
  /\ nightActions' = g.nightActions
  /\ votes' = g.votes
  /\ jailedPlayerId' = g.jailedPlayerId
  /\ jailorId' = g.jailorId
  /\ jailorPendingDeath' = g.jailorPendingDeath
  /\ framedPlayers' = g.framedPlayers
  /\ investigationResults' = g.investigationResults
  /\ winner' = g.winner
  /\ logs' = g.logs
  /\ timer' = g.timer
  /\ interval' = g.interval
  /\ timerCallback' = g.timerCallback
  /\ intervals' = g.intervals
  /\ npcPending' = g.npcPending
  /\ npcJoining' = g.npcJoining
  /\ nextId' = g.nextId
  /\ crashed' = g.crashed
  /\ nightRuns' = g.nightRuns
  /\ voteRuns' = g.voteRuns
  /\ gameChat' = g.gameChat
  /\ inputs' = g.inputs

\* the state is the game record g
Is(g) ==
  /\ state = g.state
  /\ round = g.round
  /\ players = g.players
  /\ nightActions = g.nightActions
  /\ votes = g.votes
  /\ jailedPlayerId = g.jailedPlayerId
  /\ jailorId = g.jailorId
  /\ jailorPendingDeath = g.jailorPendingDeath
  /\ framedPlayers = g.framedPlayers
  /\ investigationResults = g.investigationResults
  /\ winner = g.winner
  /\ logs = g.logs
  /\ timer = g.timer
  /\ interval = g.interval
  /\ timerCallback = g.timerCallback
  /\ intervals = g.intervals
  /\ npcPending = g.npcPending
  /\ npcJoining = g.npcJoining
  /\ nextId = g.nextId
  /\ crashed = g.crashed
  /\ nightRuns = g.nightRuns
  /\ voteRuns = g.voteRuns
  /\ gameChat = g.gameChat
  /\ inputs = g.inputs

\* the empty object {} of nightActions and votes
EmptyMap == [k \in {} |-> Null]

\* new Game(code, hostPlayerId, settings) followed by addPlayer(host)
NewGame ==
  [state |-> "LOBBY", round |-> 0, players |-> [p \in {Host} |-> newPlayer(FALSE)],
   nightActions |-> EmptyMap, votes |-> EmptyMap,
   jailedPlayerId |-> Null, jailorId |-> Null, jailorPendingDeath |-> FALSE,
   framedPlayers |-> {}, investigationResults |-> EmptyMap,
   winner |-> "null", logs |-> {},
   timer |-> 0, interval |-> Null, timerCallback |-> "null",
   intervals |-> {}, npcPending |-> {}, npcJoining |-> 0, nextId |-> Host + 1,
   crashed |-> FALSE, nightRuns |-> 0, voteRuns |-> 0, gameChat |-> << >>,
   inputs |-> MaxInputs]

----------------------------------------------------------------------------
(* Roster helpers *)

\* the ids of this.players; a removed player's object lives on in the closures
\* that captured it, with inRoster = FALSE
Roster(g) == {p \in DOMAIN g.players : g.players[p].inRoster}
Living(g) == {p \in Roster(g) : g.players[p].alive}
AliveNPCs(g) == {p \in Living(g) : g.players[p].isNPC}

\* this.logs.push(...) of a line of the given kind
pushLog(g, kind) == [g EXCEPT !.logs = @ \cup {<<g.round, kind>>}]

----------------------------------------------------------------------------
(* Timers: Game.startTimer, the setInterval callback, Game.skipTimer *)

\* clearInterval(handle)
clearInterval(g, handle) ==
  [g EXCEPT !.intervals = {i \in @ : i.id # handle}]

\* the handle setInterval returns: one no live interval has
freshHandle(g) ==
  CHOOSE n \in 1 .. (Cardinality(g.intervals) + 1) :
    /\ \A i \in g.intervals : i.id # n
    /\ \A m \in 1 .. (n - 1) : \E i \in g.intervals : i.id = m

\* a startTimer that leaves the previous interval running
startTimer_keep(g, seconds, cb) ==
  LET h == freshHandle(g)
  IN [g EXCEPT !.timer = seconds, !.timerCallback = cb, !.interval = h,
               !.intervals = @ \cup {[id |-> h, cb |-> cb]}]

\* Game.startTimer(seconds, callback)
startTimer(g, seconds, cb) ==
  LET g1 == IF g.interval # Null THEN clearInterval(g, g.interval) ELSE g
      h == freshHandle(g1)
  IN [g1 EXCEPT !.timer = seconds, !.timerCallback = cb, !.interval = h,
                !.intervals = @ \cup {[id |-> h, cb |-> cb]}]

\* Game.triggerAIActions: the setTimeout callbacks scheduled for the living
\* NPCs in NIGHT (night action) and DAY_VOTE (vote and re-evaluation); the
\* DAY_DISCUSS branch schedules chat only
triggerAIActions(g) ==
  LET sched(kinds) == {[npc |-> n, kind |-> k, round |-> g.round, stage |-> "timeout",
                         prisoner |-> Null, current |-> Null] :
                         n \in AliveNPCs(g), k \in kinds}
  IN CASE g.state = "NIGHT" -> [g EXCEPT !.npcPending = @ \cup sched({"night"})]
       [] g.state = "DAY_VOTE" -> [g EXCEPT !.npcPending = @ \cup sched({"vote", "revote"})]
       [] OTHER -> g

----------------------------------------------------------------------------
(* Win-condition evaluator: Game.checkWinCondition *)

evilLiving(g) == {p \in Living(g) : g.players[p].alignment = "evil"}

\* the evaluator with a strict test, vamps > living / 2
checkWinCondition_strict(g) ==
  LET living == Cardinality(Living(g))
      vamps == Cardinality(evilLiving(g))
      over(w, line) ==
        LET g1 == [g EXCEPT !.state = "GAME_OVER", !.winner = w]
            g2 == IF g1.interval # Null THEN clearInterval(g1, g1.interval) ELSE g1
        IN pushLog(g2, line)
  IN IF vamps = 0 THEN over("GOOD", "goodWins")
     ELSE IF 2 * vamps > living THEN over("EVIL", "evilWins")
     ELSE g

\* Game.checkWinCondition()
checkWinCondition(g) ==
  LET living == Cardinality(Living(g))
      vamps == Cardinality(evilLiving(g))
      over(w, line) ==
        LET g1 == [g EXCEPT !.state = "GAME_OVER", !.winner = w]
            g2 == IF g1.interval # Null THEN clearInterval(g1, g1.interval) ELSE g1
        IN pushLog(g2, line)
  IN IF vamps = 0 THEN over("GOOD", "goodWins")
     ELSE IF 2 * vamps >= living THEN over("EVIL", "evilWins")
     ELSE g

----------------------------------------------------------------------------
(* Phase entries: Game.startNight, Game.startDayDiscuss, Game.startDayVote *)

\* a startNight that keeps this.framedPlayers
startNight_keepFramed(g) ==
  LET g1 == [g EXCEPT !.state = "NIGHT", !.round = @ + 1,
                      !.nightActions = EmptyMap, !.votes = EmptyMap,
                      !.jailedPlayerId = Null, !.jailorId = Null,
                      !.nightRuns = 0, !.gameChat = << >>]
  IN triggerAIActions(startTimer(g1, PhaseSeconds, "resolveNight"))

\* Game.startNight
startNight(g) ==
  LET g1 == [g EXCEPT !.state = "NIGHT", !.round = @ + 1,
                      !.nightActions = EmptyMap, !.votes = EmptyMap,
                      !.jailedPlayerId = Null, !.jailorId = Null,
                      !.framedPlayers = {}, !.nightRuns = 0, !.gameChat = << >>]
  IN triggerAIActions(startTimer(g1, PhaseSeconds, "resolveNight"))

startDayDiscuss(g) ==
  LET g1 == [g EXCEPT !.state = "DAY_DISCUSS"]
      guilt == /\ g1.jailorPendingDeath
               /\ g1.jailorId \in Roster(g1)
               /\ g1.players[g1.jailorId].alive
      g2 == IF guilt
            THEN pushLog([g1 EXCEPT !.players[g1.jailorId].alive = FALSE], "guilt")
            ELSE g1
      g3 == [g2 EXCEPT !.jailorPendingDeath = FALSE,
                       !.jailedPlayerId = Null, !.jailorId = Null, !.gameChat = << >>]
  IN triggerAIActions(startTimer(g3, PhaseSeconds, "startDayVote"))

startDayVote(g) ==
  LET g1 == [g EXCEPT !.state = "DAY_VOTE", !.votes = EmptyMap, !.voteRuns = 0]
  IN triggerAIActions(startTimer(g1, PhaseSeconds, "resolveVoting"))

----------------------------------------------------------------------------
(* Night resolver: Game.resolveNight *)

LedgerKeys(g) == DOMAIN g.nightActions
keysOfType(g, type) == {k \in LedgerKeys(g) : g.nightActions[k].type = type}

\* doctorHeals: the HEAL entries of the ledger
doctorHeals(g) == keysOfType(g, "HEAL")
isHealed(g, t) == \E k \in doctorHeals(g) : g.nightActions[k].targetId = t

\* step 2: doctor.healsRemaining-- once per HEAL entry whose actorId finds a
\* Doctor with heals left
consumeHeals(g) ==
  LET n(p) == Cardinality({k \in doctorHeals(g) : g.nightActions[k].actorId = p})
      dec(p) == IF /\ p \in Roster(g)
                   /\ g.players[p].role = "Doctor"
                   /\ g.players[p].healsRemaining > 0
                THEN IF g.players[p].healsRemaining > n(p)
                     THEN g.players[p].healsRemaining - n(p) ELSE 0
                ELSE g.players[p].healsRemaining
  IN [g EXCEPT !.players = [p \in DOMAIN @ |-> [@[p] EXCEPT !.healsRemaining = dec(p)]]]

\* step 3: the BITE tally
\* a ritual that falls on every round
canTurn_always(g) == TRUE
\* const canTurn = this.round % 2 === 0
canTurn(g) == g.round % 2 = 0
voteCount(g, t) ==
  Cardinality({k \in keysOfType(g, "BITE") : g.nightActions[k].targetId = t})
biteTargets(g) == {g.nightActions[k].targetId : k \in keysOfType(g, "BITE")}
\* a tally that keeps every bitten target
topTargets_any(g) == biteTargets(g)
\* topTargets: the targets whose count is maxVotes
topTargets(g) ==
  {t \in biteTargets(g) : \A u \in biteTargets(g) : voteCount(g, u) <= voteCount(g, t)}

\* step 3 without the doctorHeals test
vampireLogic_noHeal(g, c) ==
  IF /\ canTurn(g)
     /\ c \in Roster(g)
     /\ g.players[c].alive
     /\ ~isVampireRole(g.players[c].role)
  THEN IF g.jailedPlayerId = c THEN pushLog(g, "unreachable")
       ELSE pushLog([g EXCEPT !.players[c].role = "Vampire",
                              !.players[c].alignment = "evil",
                              !.players[c].isTurned = TRUE], "ritual")
  ELSE g

\* step 3, for the target c picked among topTargets
vampireLogic(g, c) ==
  IF /\ canTurn(g)
     /\ c \in Roster(g)
     /\ g.players[c].alive
     /\ ~isVampireRole(g.players[c].role)
  THEN IF g.jailedPlayerId = c THEN pushLog(g, "unreachable")
       ELSE IF isHealed(g, c) THEN pushLog(g, "saved")
       ELSE pushLog([g EXCEPT !.players[c].role = "Vampire",
                              !.players[c].alignment = "evil",
                              !.players[c].isTurned = TRUE], "ritual")
  ELSE g

\* step 4: every FRAME entry of a living Vampire Framer frames its target
frameLogic(g) ==
  LET framers == {k \in keysOfType(g, "FRAME") :
                    LET a == g.nightActions[k].actorId
                    IN /\ a \in Roster(g)
                       /\ g.players[a].role = "Vampire Framer"
                       /\ g.players[a].alive}
  IN [g EXCEPT !.framedPlayers = @ \cup {g.nightActions[k].targetId : k \in framers}]

\* visits[t]: the actors of the entries on t that this.players.find finds
visits(g, t) ==
  {g.nightActions[k].actorId :
     k \in {j \in LedgerKeys(g) : /\ g.nightActions[j].targetId = t
                                  /\ g.nightActions[j].actorId \in Roster(g)}}

\* steps 5 and 6: the result of the INVESTIGATE or LOOKOUT entry under key k
\* (players are told apart by name; names are taken distinct)
resultOf(g, k) ==
  LET a == g.nightActions[k]
  IN IF a.type = "INVESTIGATE"
     THEN [kind |-> "role",
           role |-> IF a.targetId \in g.framedPlayers THEN "Vampire"
                    ELSE IF a.targetId \in Roster(g) THEN g.players[a.targetId].role
                    ELSE "Unknown",
           visitors |-> {}]
     ELSE [kind |-> "visitors", role |-> "none", visitors |-> visits(g, a.targetId) \ {k}]

\* steps 5 and 6 and the private_message of each result to a player found
investigateLogic(g) ==
  LET keys == {k \in keysOfType(g, "INVESTIGATE") \cup keysOfType(g, "LOOKOUT") :
                 k \in Roster(g)}
  IN [g EXCEPT !.investigationResults = [k \in keys |-> resultOf(g, k)]]

\* step 7: the Jailor's execution
jailorExecution(g) ==
  IF g.jailedPlayerId # Null /\ g.jailorId # Null
  THEN LET pr == g.jailedPlayerId
           executes == /\ g.jailorId \in LedgerKeys(g)
                       /\ g.nightActions[g.jailorId].type = "EXECUTE"
                       /\ pr \in Roster(g)
                       /\ g.players[pr].alive
       IN IF executes
          THEN LET g1 == pushLog([g EXCEPT !.players[pr].alive = FALSE], "executed")
               IN IF g.players[pr].alignment = "good"
                  THEN [g1 EXCEPT !.jailorPendingDeath = TRUE]
                  ELSE g1
          ELSE g
  ELSE g

\* a resolution that runs steps 4 to 6 before the vampire turn
resolveNightWith_investigateFirst(g, c) ==
  LET g0 == [g EXCEPT !.nightRuns = @ + 1]
      g1 == consumeHeals(g0)
      g2 == investigateLogic(frameLogic(g1))
      g3 == vampireLogic(g2, c)
      g4 == jailorExecution(g3)
      g5 == checkWinCondition(g4)
  IN IF g5.state # "GAME_OVER" THEN startDayDiscuss(g5) ELSE g5

\* Game.resolveNight with the tie-break draw c (Null when there is no BITE
\* entry or the round is odd)
resolveNightWith(g, c) ==
  LET g0 == [g EXCEPT !.nightRuns = @ + 1]
      g1 == consumeHeals(g0)
      g2 == vampireLogic(g1, c)
      g3 == investigateLogic(frameLogic(g2))
      g4 == jailorExecution(g3)
      g5 == checkWinCondition(g4)
  IN IF g5.state # "GAME_OVER" THEN startDayDiscuss(g5) ELSE g5

\* the values Math.random can give potentialTargetId
biteDraws(g) ==
  IF canTurn(g) /\ topTargets(g) # {} THEN topTargets(g) ELSE {Null}

resolveNight(g) == {resolveNightWith(g, c) : c \in biteDraws(g)}

----------------------------------------------------------------------------
(* Lynch resolver: Game.resolveVoting *)

\* counts[targetId]
voteCountFor(g, t) == Cardinality({v \in DOMAIN g.votes : g.votes[v] = t})
livingCount(g) == Cardinality(Living(g))

\* the targets that meet count >= livingCount / 2 (compared on reals)
lynchable(g) ==
  {t \in {g.votes[v] : v \in DOMAIN g.votes} : 2 * voteCountFor(g, t) >= livingCount(g)}

\* resolveVoting without the Jester branch
resolveVotingWith_noJester(g, lynchedId) ==
  LET g0 == [g EXCEPT !.voteRuns = @ + 1]
  IN IF lynchedId # Null
     THEN IF lynchedId \notin Roster(g0)
          THEN [g0 EXCEPT !.crashed = TRUE]
          ELSE LET g1 == pushLog([g0 EXCEPT !.players[lynchedId].alive = FALSE], "lynched")
                   g2 == checkWinCondition(g1)
               IN IF g2.state # "GAME_OVER" THEN startNight(g2) ELSE g2
     ELSE LET g1 == pushLog(g0, "noLynch")
              g2 == checkWinCondition(g1)
          IN IF g2.state # "GAME_OVER" THEN startNight(g2) ELSE g2

\* Game.resolveVoting once the loop over counts has set lynchedId (Null: no
\* target qualified)
resolveVotingWith(g, lynchedId) ==
  LET g0 == [g EXCEPT !.voteRuns = @ + 1]
  IN IF lynchedId # Null
     THEN IF lynchedId \notin Roster(g0)
          THEN \* victim is undefined: victim.alive = false throws a TypeError
               [g0 EXCEPT !.crashed = TRUE]
          ELSE LET g1 == pushLog([g0 EXCEPT !.players[lynchedId].alive = FALSE], "lynched")
               IN IF g1.players[lynchedId].role = "Jester"
                  THEN pushLog([g1 EXCEPT !.state = "GAME_OVER", !.winner = "Jester"],
                               "jesterWins")
                  ELSE LET g2 == checkWinCondition(g1)
                       IN IF g2.state # "GAME_OVER" THEN startNight(g2) ELSE g2
     ELSE LET g1 == pushLog(g0, "noLynch")
              g2 == checkWinCondition(g1)
          IN IF g2.state # "GAME_OVER" THEN startNight(g2) ELSE g2

\* the loop takes the first qualifying entry of counts; the order of counts is
\* the order in which the voters first voted, which the VoteMap function does
\* not keep, so every qualifying target is a possible first
lynchDraws(g) == IF lynchable(g) = {} THEN {Null} ELSE lynchable(g)

resolveVoting(g) == {resolveVotingWith(g, t) : t \in lynchDraws(g)}

----------------------------------------------------------------------------
(* Countdown callbacks *)

\* the closure stored by startTimer, run
runCallback(g, cb) ==
  CASE cb = "resolveNight" -> resolveNight(g)
    [] cb = "startDayVote" -> {startDayVote(g)}
    [] cb = "resolveVoting" -> resolveVoting(g)
    [] OTHER -> {g}

\* the setInterval callback of the live interval i
intervalTick(g, i) ==
  LET g1 == [g EXCEPT !.timer = @ - 1]
  IN IF g1.timer <= 0
     THEN runCallback([clearInterval(g1, g1.interval) EXCEPT !.timerCallback = "null"], i.cb)
     ELSE {g1}

\* a skipTimer that stops the countdown without running the stored callback
skipTimer_noCallback(g) ==
  IF g.interval # Null
  THEN {[clearInterval(g, g.interval) EXCEPT !.timer = 0, !.timerCallback = "null"]}
  ELSE {g}

\* Game.skipTimer
skipTimer(g) ==
  IF g.interval # Null
  THEN LET g1 == [clearInterval(g, g.interval) EXCEPT !.timer = 0]
       IN IF g1.timerCallback # "null"
          THEN runCallback([g1 EXCEPT !.timerCallback = "null"], g1.timerCallback)
          ELSE {g1}
  ELSE {g}

\* Game.endGame(winner = 'Host Ended')
endGame(g) ==
  LET g1 == IF g.interval # Null THEN clearInterval(g, g.interval) ELSE g
  IN pushLog([g1 EXCEPT !.state = "GAME_OVER", !.winner = "Host Ended"], "hostEnded")

----------------------------------------------------------------------------
(* Role assignment: Game.assignRoles *)

GoodRoles == {"Investigator", "Lookout", "Doctor", "Citizen", "Jailor"}
EvilRoles == {"Vampire", "Vampire Framer"}
NeutralRoles == {"Jester"}

\* the roles a roleConfig can count (config.Citizen is never read)
ConfigRoles == Roles \ {"Citizen"}

RECURSIVE bagSum(_, _)
bagSum(b, S) ==
  IF S = {} THEN 0
  ELSE LET r == CHOOSE x \in S : TRUE IN b[r] + bagSum(b, S \ {r})

bagSize(b) == bagSum(b, Roles)
max2(a, b) == IF a >= b THEN a ELSE b
min2(a, b) == IF a <= b THEN a ELSE b

\* the pool of the explicit configuration cfg (role -> count) for total
\* players, padded with Citizens, before the smart exclusion
customPool(cfg, total) ==
  LET n == bagSum(cfg, ConfigRoles)
  IN [r \in Roles |-> IF r = "Citizen" THEN max2(0, total - n) ELSE cfg[r]]

\* the pool of the default percentages
defaultPool(total) ==
  [r \in Roles |->
     CASE r \in {"Investigator", "Lookout", "Doctor"} -> max2(1, total \div 10)
       [] r = "Jailor" -> IF total >= 6 THEN 1 ELSE 0
       [] r = "Vampire" -> max2(1, (15 * total) \div 100)
       [] r = "Jester" -> 1
       [] r = "Vampire Framer" -> 0
       [] r = "Citizen" ->
            max2(0, total - (3 * max2(1, total \div 10) + (IF total >= 6 THEN 1 ELSE 0)
                             + max2(1, (15 * total) \div 100) + 1))]

\* the bags b <= pool
subBags(pool) ==
  LET used == {r \in Roles : pool[r] > 0}
      parts == {b \in [used -> 0 .. bagSize(pool)] : \A r \in used : b[r] <= pool[r]}
  IN {[r \in Roles |-> IF r \in used THEN b[r] ELSE 0] : b \in parts}

\* an exclusion that removes any excess roles
smartExclusion_any(pool, total) ==
  {[r \in Roles |-> pool[r] - x[r]] :
     x \in {y \in subBags(pool) : bagSize(y) = bagSize(pool) - total}}

\* smart exclusion: the pools that can remain when pool is larger than total.
\* rolesToExclude holds evilToRemove evil roles, then neutralToRemove neutral
\* roles, then goodToRemove good roles, each drawn by shuffle, and then
\* whatever else a last shuffle of the rest removes
smartExclusion(pool, total) ==
  LET excess == bagSize(pool) - total
      evil == bagSum(pool, EvilRoles)
      good == bagSum(pool, GoodRoles)
      neutral == bagSum(pool, NeutralRoles)
      minEvil == 1
      minGood == (total \div 2) + 1
      evilToRemove == min2(excess, max2(0, evil - minEvil))
      rem1 == excess - evilToRemove
      neutralToRemove == min2(rem1, neutral)
      rem2 == rem1 - neutralToRemove
      goodToRemove == min2(rem2, max2(0, good - minGood))
      rem3 == rem2 - goodToRemove
      excluded == {x \in subBags(pool) :
                     /\ bagSize(x) = excess
                     /\ bagSum(x, EvilRoles) >= evilToRemove
                     /\ bagSum(x, NeutralRoles) >= neutralToRemove
                     /\ bagSum(x, GoodRoles) >= goodToRemove
                     /\ (rem3 = 0 => /\ bagSum(x, EvilRoles) = evilToRemove
                                     /\ bagSum(x, NeutralRoles) = neutralToRemove
                                     /\ bagSum(x, GoodRoles) = goodToRemove)}
  IN {[r \in Roles |-> pool[r] - x[r]] : x \in excluded}

\* the pools assignRoles can end with for the settings' roleConfig
finalPools(cfg, total) ==
  IF cfg.useDefault THEN {defaultPool(total)}
  ELSE LET pool == customPool(cfg.counts, total)
       IN IF bagSize(pool) > total THEN smartExclusion(pool, total) ELSE {pool}

\* pool = shuffle(pool); players[i] gets pool[i]: every way to hand the
\* players distinct pool entries
dealings(pool, ids) ==
  {f \in [ids -> {r \in Roles : pool[r] > 0}] :
     \A r \in Roles : Cardinality({p \in ids : f[p] = r}) <= pool[r]}

\* Game.assignRoles for one outcome f of the shuffles (with every role
\* allowed for NPCs, the setting's default)
assignRolesWith(g, f) ==
  [g EXCEPT !.players =
     [p \in DOMAIN @ |->
        IF p \in Roster(g)
        THEN [@[p] EXCEPT !.role = f[p], !.alignment = roleAlignments(f[p]),
                          !.healsRemaining = IF f[p] = "Doctor" THEN 3 ELSE Undefined]
        ELSE @[p]]]

assignRoles(g, cfg) ==
  {assignRolesWith(g, f) :
     f \in UNION {dealings(pool, Roster(g)) : pool \in finalPools(cfg, Cardinality(Roster(g)))}}

\* the smallest id of a non-empty set of players (this.players is in join
\* order)
first(S) == CHOOSE p \in S : \A q \in S : p <= q

\* a player given a role without its alignment
withRole_keepAlignment(pl, role, alignment) ==
  [pl EXCEPT !.role = role,
             !.healsRemaining = IF role = "Doctor" THEN 3 ELSE Undefined]

\* a player with the given role, its alignment and its Doctor heals
withRole(pl, role, alignment) ==
  [pl EXCEPT !.role = role, !.alignment = alignment,
             !.healsRemaining = IF role = "Doctor" THEN 3 ELSE Undefined]

\* a restriction that demotes every NPC with a disallowed role
restrictFrom_demote(pl, todo, humans, disallowed) ==
  [p \in DOMAIN pl |->
     IF p \in todo /\ pl[p].role \in disallowed
     THEN withRole(pl[p], "Citizen", roleAlignments("Citizen")) ELSE pl[p]]

\* the loop over the NPCs still to visit: an NPC with a disallowed role swaps
\* with the first human whose role is allowed, or becomes Citizen
RECURSIVE restrictFrom(_, _, _, _)
restrictFrom(pl, todo, humans, disallowed) ==
  IF todo = {} THEN pl
  ELSE LET npc == first(todo)
           candidates == {h \in humans : pl[h].role \notin disallowed}
           pl1 == IF pl[npc].role \notin disallowed THEN pl
                  ELSE IF candidates # {}
                  THEN LET human == first(candidates)
                       IN [pl EXCEPT
                             ![npc] = withRole(@, pl[human].role, pl[human].alignment),
                             ![human] = withRole(@, pl[npc].role, pl[npc].alignment)]
                  ELSE [pl EXCEPT ![npc] =
                          withRole(@, "Citizen", roleAlignments("Citizen"))]
       IN restrictFrom(pl1, todo \ {npc}, humans, disallowed)

\* Game.assignRoles, the NPC allowed roles: disallowed is the set of roles
\* that settings.npcAllowedRoles maps to false
npcAllowedRoles(g, disallowed) ==
  IF disallowed = {} THEN g
  ELSE [g EXCEPT !.players =
          restrictFrom(@, {p \in Roster(g) : g.players[p].isNPC},
                       {p \in Roster(g) : ~g.players[p].isNPC}, disallowed)]

\* Game.assignRoles with the setting npcAllowedRoles
assignRolesRestricted(g, cfg, disallowed) ==
  {npcAllowedRoles(g1, disallowed) : g1 \in assignRoles(g, cfg)}

\* Game.start
start(g, cfg) == {startNight(g1) : g1 \in assignRoles(g, cfg)}

----------------------------------------------------------------------------
(* The night-action ledger: socket.on('night_action') *)

setEntry(g, key, entry) ==
  [g EXCEPT !.nightActions =
     [k \in DOMAIN @ \cup {key} |-> IF k = key THEN entry ELSE @[k]]]

deleteEntry(g, key) ==
  [g EXCEPT !.nightActions = [k \in DOMAIN @ \ {key} |-> @[k]]]

\* the handler body without the test of healsRemaining
nightAction_noHealTest(g, p, a) ==
  LET me == g.players[p]
      t == a.targetId
      entry == [type |-> a.type, actorId |-> p, targetId |-> t]
  IN IF a.clear \/ (t = Null /\ a.type # "EXECUTE")
     THEN IF a.type = "FRAME" /\ frameKey(p) \in LedgerKeys(g)
          THEN deleteEntry(g, frameKey(p))
          ELSE deleteEntry(g, p)
     ELSE IF /\ a.type = "BITE"
             /\ t \in Roster(g)
             /\ isVampireRole(g.players[t].role)
     THEN g
     ELSE IF a.type = "HEAL" /\ me.role # "Doctor"
     THEN g
     ELSE IF a.type = "JAIL"
     THEN IF \/ me.role # "Jailor"
             \/ ~me.alive
             \/ t \notin Roster(g)
             \/ ~g.players[t].alive
             \/ t = p
          THEN g
          ELSE deleteEntry([g EXCEPT !.jailedPlayerId = t, !.jailorId = p], t)
     ELSE IF a.type = "EXECUTE"
     THEN IF me.role # "Jailor" \/ g.jailorId # p
          THEN g
          ELSE setEntry(g, p, [type |-> "EXECUTE", actorId |-> p,
                               targetId |-> g.jailedPlayerId])
     ELSE IF a.type = "CANCEL_EXECUTE"
     THEN IF me.role # "Jailor" \/ g.jailorId # p
          THEN g
          ELSE IF p \in LedgerKeys(g) /\ g.nightActions[p].type = "EXECUTE"
               THEN deleteEntry(g, p)
               ELSE g
     ELSE IF g.jailedPlayerId = p
     THEN g
     ELSE IF a.type = "FRAME"
     THEN IF \/ me.role # "Vampire Framer"
             \/ ~me.alive
             \/ t \notin Roster(g)
             \/ ~g.players[t].alive
             \/ isVampireRole(g.players[t].role)
          THEN g
          ELSE setEntry(g, frameKey(p), entry)
     ELSE setEntry(g, p, entry)

\* the handler body for the player p of the socket and the payload a =
\* [type, targetId, clear], once the guard game.state === 'NIGHT' has passed
nightAction(g, p, a) ==
  LET me == g.players[p]
      t == a.targetId
      entry == [type |-> a.type, actorId |-> p, targetId |-> t]
  IN IF a.clear \/ (t = Null /\ a.type # "EXECUTE")
     THEN IF a.type = "FRAME" /\ frameKey(p) \in LedgerKeys(g)
          THEN deleteEntry(g, frameKey(p))
          ELSE deleteEntry(g, p)
     ELSE IF /\ a.type = "BITE"
             /\ t \in Roster(g)
             /\ isVampireRole(g.players[t].role)
     THEN g
     ELSE IF a.type = "HEAL" /\ (me.role # "Doctor" \/ me.healsRemaining <= 0)
     THEN g
     ELSE IF a.type = "JAIL"
     THEN IF \/ me.role # "Jailor"
             \/ ~me.alive
             \/ t \notin Roster(g)
             \/ ~g.players[t].alive
             \/ t = p
          THEN g
          ELSE deleteEntry([g EXCEPT !.jailedPlayerId = t, !.jailorId = p], t)
     ELSE IF a.type = "EXECUTE"
     THEN IF me.role # "Jailor" \/ g.jailorId # p
          THEN g
          ELSE setEntry(g, p, [type |-> "EXECUTE", actorId |-> p,
                               targetId |-> g.jailedPlayerId])
     ELSE IF a.type = "CANCEL_EXECUTE"
     THEN IF me.role # "Jailor" \/ g.jailorId # p
          THEN g
          ELSE IF p \in LedgerKeys(g) /\ g.nightActions[p].type = "EXECUTE"
               THEN deleteEntry(g, p)
               ELSE g
     ELSE IF g.jailedPlayerId = p
     THEN g
     ELSE IF a.type = "FRAME"
     THEN IF \/ me.role # "Vampire Framer"
             \/ ~me.alive
             \/ t \notin Roster(g)
             \/ ~g.players[t].alive
             \/ isVampireRole(g.players[t].role)
          THEN g
          ELSE setEntry(g, frameKey(p), entry)
     ELSE setEntry(g, p, entry)

----------------------------------------------------------------------------
(* Deferred NPC callbacks of Game.triggerAIActions and                     *)
(* Game.startNPCJailorInterrogation                                        *)

\* the setTimeout callback c up to its await of the oracle: the guard it
\* checks, then it is suspended in the call (stage "await") or returns
npcFire(g, c) ==
  LET proceeds ==
        CASE c.kind = "night" -> g.players[c.npc].alive
          [] c.kind \in {"vote", "revote"} ->
               g.players[c.npc].alive /\ g.state = "DAY_VOTE"
          [] c.kind = "execute" ->
               g.state = "NIGHT" /\ g.jailedPlayerId # Null /\ g.jailorId = c.npc
          [] OTHER -> FALSE
      \* the re-evaluation passes the player the NPC votes for now
      currentTarget ==
        IF c.kind = "revote" /\ c.npc \in DOMAIN g.votes /\ g.votes[c.npc] \in Roster(g)
        THEN g.votes[c.npc] ELSE Null
  IN [g EXCEPT !.npcPending =
        (@ \ {c}) \cup (IF proceeds
                        THEN {[c EXCEPT !.stage = "await", !.current = currentTarget]}
                        ELSE {})]

\* Game.startNPCJailorInterrogation(jailor, prisoner): the execute decision
\* it schedules, a closure over both player objects (the interrogation
\* messages write to the jail chat only)
startNPCJailorInterrogation(g, jailor, prisoner) ==
  IF g.state # "NIGHT" THEN g
  ELSE [g EXCEPT !.npcPending =
          @ \cup {[npc |-> jailor, kind |-> "execute", round |-> g.round,
                   stage |-> "timeout", prisoner |-> prisoner, current |-> Null]}]

\* the night callback after await this.ai.generateNightAction: decision d =
\* [action, targetId], targetId the id of the player named or Null
npcNightDecision(g, npc, d) ==
  LET t == d.targetId
      payload == [type |-> d.action, actorId |-> Undefined, targetId |-> t]
  IN IF d.action = "NONE" THEN g
     ELSE IF d.action = "BITE" /\ t # Null
     THEN IF ~isVampireRole(g.players[t].role) THEN setEntry(g, npc, payload) ELSE g
     ELSE IF d.action = "JAIL" /\ t # Null /\ g.players[npc].role = "Jailor"
     THEN IF g.players[t].alive /\ t # npc
          THEN startNPCJailorInterrogation(
                 [g EXCEPT !.jailedPlayerId = t, !.jailorId = npc], npc, t)
          ELSE g
     ELSE IF t # Null \/ d.action = "EXECUTE" THEN setEntry(g, npc, payload)
     ELSE g

\* handleVote(npc, voteName), t the id of the player the name finds or Null
handleVote(g, npc, t) ==
  IF t # Null
  THEN IF g.players[t].alive
       THEN [g EXCEPT !.votes = [v \in DOMAIN @ \cup {npc} |-> IF v = npc THEN t ELSE @[v]]]
       ELSE g
  ELSE [g EXCEPT !.votes = [v \in DOMAIN @ \ {npc} |-> @[v]]]

\* the execute decision after await this.ai.generateExecuteDecision
npcExecuteDecision(g, npc, execute) ==
  IF execute
  THEN setEntry(g, npc, [type |-> "EXECUTE", actorId |-> npc,
                         targetId |-> g.jailedPlayerId])
  ELSE g

\* the callback c resumed by an oracle that failed: the response was parsed
\* to {} (every field undefined), or the call threw and the controller
\* returned its default: action NONE, vote null, for the re-evaluation the
\* name of the current vote, execute false
oracleFailure(g, c) ==
  LET g1 == [g EXCEPT !.npcPending = @ \ {c}]
  IN CASE c.kind = "night" ->
            {npcNightDecision(g1, c.npc, [action |-> "undefined", targetId |-> Null]),
             npcNightDecision(g1, c.npc, [action |-> "NONE", targetId |-> Null])}
       [] c.kind = "vote" -> {handleVote(g1, c.npc, Null)}
       [] c.kind = "revote" ->
            {handleVote(g1, c.npc, Null), handleVote(g1, c.npc, c.current)}
       [] OTHER -> {npcExecuteDecision(g1, c.npc, FALSE)}

\* the players that receive the jail_chat_update the execute decision c
\* emits when its await returns: the jailor and the prisoner of its closure,
\* each if it has a socket (both branches of the decision emit)
executeDecisionUpdate(g, c) ==
  {p \in {c.npc, c.prisoner} : ~g.players[p].isNPC}

\* socket.on('jail_chat_message') from player: the players that receive the
\* jail_chat_update it emits
jailChatMessage(g, player) ==
  IF g.state # "NIGHT" \/ player \notin Roster(g) THEN {}
  ELSE IF player # g.jailorId /\ player # g.jailedPlayerId THEN {}
  ELSE {p \in {g.jailorId, g.jailedPlayerId} \cap Roster(g) : ~g.players[p].isNPC}

\* socket.on('chat_message') from player: accepted outside LOBBY and
\* GAME_OVER from a living player, at night from a vampire only
chatAccepted(g, player) ==
  /\ g.state \notin {"LOBBY", "GAME_OVER"}
  /\ player \in Roster(g) /\ g.players[player].alive
  /\ g.state = "NIGHT" => isVampireRole(g.players[player].role)

\* the message is pushed on this.gameChat
chatMessage(g, player) ==
  IF chatAccepted(g, player)
  THEN [g EXCEPT !.gameChat = Append(@, [senderId |-> player,
                                          isVampireChat |-> g.state = "NIGHT"])]
  ELSE g

\* the players that receive the chat_update of the message
chatUpdate(g, player) ==
  IF ~chatAccepted(g, player) THEN {}
  ELSE IF g.state = "NIGHT"
  THEN {p \in Roster(g) : isVampireRole(g.players[p].role) /\ ~g.players[p].isNPC}
  ELSE {p \in Roster(g) : ~g.players[p].isNPC}

----------------------------------------------------------------------------
(* The handlers and callbacks as actions *)

Humans(g) == {p \in Roster(g) : ~g.players[p].isNPC}

\* the socket of the event belongs to the host: game.host === player.id
isHost(g) == Host \in Humans(g)

\* one more input is allowed
canSpend == inputs > 0
spend(g) == [g EXCEPT !.inputs = @ - 1]
\* an event that is rejected or changes nothing is a stuttering step and is
\* not counted
Input(g) == canSpend /\ g # G /\ Becomes(spend(g))

\* socket.on('join_game')
join_game ==
  /\ ~crashed
  /\ state = "LOBBY"
  /\ nextId + npcJoining <= NumPlayers
  /\ Becomes([G EXCEPT !.players = [p \in DOMAIN @ \cup {nextId} |->
                                      IF p = nextId THEN newPlayer(FALSE) ELSE @[p]],
                       !.nextId = @ + 1])

\* socket.on('add_npc') up to await game.addNPC() (an AI controller is set)
add_npc ==
  /\ ~crashed
  /\ isHost(G)
  /\ state = "LOBBY"
  /\ nextId + npcJoining <= NumPlayers
  /\ Cardinality({p \in DOMAIN players : players[p].isNPC}) + npcJoining < MaxNPCs
  /\ Becomes([G EXCEPT !.npcJoining = @ + 1])

\* Game.addNPC after await this.ai.generateNPCProfile: this.players.push
addNPC ==
  /\ ~crashed
  /\ npcJoining > 0
  /\ LET g == [G EXCEPT !.players = [p \in DOMAIN @ \cup {nextId} |->
                                       IF p = nextId THEN newPlayer(TRUE) ELSE @[p]],
                        !.nextId = @ + 1, !.npcJoining = @ - 1]
     IN IF state = "LOBBY" THEN Becomes(g) ELSE Input(g)

\* socket.on('kick_player'): Game.removePlayer
kick_player(t) ==
  /\ ~crashed
  /\ isHost(G)
  /\ t \in Roster(G)
  /\ Input([G EXCEPT !.players[t].inRoster = FALSE])

\* socket.on('start_game')
start_game(cfg) ==
  /\ ~crashed
  /\ isHost(G)
  /\ round < MaxRound
  /\ \E g \in start(G, cfg) : IF state = "LOBBY" THEN Becomes(g) ELSE Input(g)

\* socket.on('start_game') in the lobby of a session whose settings disallow
\* some roles for NPCs
start_game_restricted(cfg, disallowed) ==
  /\ ~crashed
  /\ isHost(G)
  /\ state = "LOBBY"
  /\ \E g \in assignRolesRestricted(G, cfg, disallowed) : Becomes(startNight(g))

\* socket.on('night_action')
night_action(p, a) ==
  /\ ~crashed
  /\ state = "NIGHT"
  /\ p \in Humans(G)
  /\ Input(nightAction(G, p, a))

\* socket.on('chat_message')
chat_message(p) ==
  /\ ~crashed
  /\ p \in Humans(G)
  /\ Input(chatMessage(G, p))

\* socket.on('day_vote')
day_vote(p, t) ==
  /\ ~crashed
  /\ state = "DAY_VOTE"
  /\ p \in Humans(G)
  /\ players[p].alive
  /\ Input([G EXCEPT !.votes =
       IF t = Null THEN [v \in DOMAIN @ \ {p} |-> @[v]]
       ELSE [v \in DOMAIN @ \cup {p} |-> IF v = p THEN t ELSE @[v]]])

\* socket.on('skip_timer')
skip_timer ==
  /\ ~crashed
  /\ isHost(G)
  /\ state # "LOBBY"
  /\ state # "GAME_OVER"
  /\ \E g \in skipTimer(G) : g.round <= MaxRound /\ Becomes(g)

\* socket.on('end_game')
end_game ==
  /\ ~crashed
  /\ isHost(G)
  /\ Input(endGame(G))

\* socket.on('change_player_role')
change_player_role(t, newRole) ==
  /\ ~crashed
  /\ isHost(G)
  /\ t \in Roster(G)
  /\ Input([G EXCEPT !.players[t].role = newRole,
                     !.players[t].alignment = roleAlignments(newRole),
                     !.players[t].healsRemaining =
                        IF newRole = "Doctor" THEN 3 ELSE Undefined])

\* socket.on('set_player_alive_status')
set_player_alive_status(t, alive) ==
  /\ ~crashed
  /\ isHost(G)
  /\ t \in Roster(G)
  /\ Input(pushLog([G EXCEPT !.players[t].alive = alive],
                   IF alive THEN "revived" ELSE "struck"))

\* one run of the setInterval callback of a live interval
TimerTick ==
  /\ ~crashed
  /\ \E i \in intervals : \E g \in intervalTick(G, i) :
       g.round <= MaxRound /\ Becomes(g)

\* a pending NPC timeout fires
NpcTimeout ==
  /\ ~crashed
  /\ \E c \in npcPending : c.stage = "timeout" /\ Input(npcFire(G, c))

\* the oracle answers the night callback c
NpcNightAction(c, d) ==
  /\ ~crashed
  /\ c \in npcPending
  /\ c.kind = "night" /\ c.stage = "await"
  /\ Becomes((npcNightDecision([G EXCEPT !.npcPending = @ \ {c}], c.npc, d)))

\* the oracle answers the vote or re-evaluation callback c
NpcDayVote(c, t) ==
  /\ ~crashed
  /\ c \in npcPending
  /\ c.kind \in {"vote", "revote"} /\ c.stage = "await"
  /\ Becomes((handleVote([G EXCEPT !.npcPending = @ \ {c}], c.npc, t)))

\* the oracle answers the execute decision c
NpcExecute(c, execute) ==
  /\ ~crashed
  /\ c \in npcPending
  /\ c.kind = "execute" /\ c.stage = "await"
  /\ Becomes((npcExecuteDecision([G EXCEPT !.npcPending = @ \ {c}], c.npc, execute)))

----------------------------------------------------------------------------
(* The session from its creation: every client event, timer tick and NPC   *)
(* callback, with inputs drawn from small sets                             *)

explicitConfig(roles) ==
  [useDefault |-> FALSE, counts |-> [r \in ConfigRoles |-> IF r \in roles THEN 1 ELSE 0]]

\* the roleConfig payloads of start_game
StartConfigs == {explicitConfig({"Vampire", "Jester", "Jailor"})}

\* the payloads of night_action
payloads(types, targets) ==
  {[type |-> ty, targetId |-> t, clear |-> FALSE] : ty \in types, t \in targets}

SessionTypes == {"JAIL", "EXECUTE"}
\* the newRole values of change_player_role
OverrideRoles == {"Vampire"}
\* the action values of an NPC night decision
DecisionActions == {"JAIL", "EXECUTE"}

Init == Is(NewGame)

Lobby ==
  \/ join_game
  \/ add_npc
  \/ addNPC
  \/ \E t \in PlayerIds : kick_player(t)
  \/ \E cfg \in StartConfigs : start_game(cfg)

Clients ==
  \/ \E p \in PlayerIds : \E a \in payloads(SessionTypes, Roster(G)) : night_action(p, a)
  \/ \E p \in PlayerIds : \E t \in Roster(G) \cup {Null, UnknownId} : day_vote(p, t)
  \/ skip_timer
  \/ end_game
  \/ \E t \in PlayerIds : \E r \in OverrideRoles : change_player_role(t, r)
  \/ \E t \in PlayerIds : \E b \in BOOLEAN : set_player_alive_status(t, b)

Runtime ==
  \/ TimerTick
  \/ NpcTimeout
  \/ \E c \in npcPending : \E a \in DecisionActions : \E t \in Roster(G) \cup {Null} :
       NpcNightAction(c, [action |-> a, targetId |-> t])
  \/ \E c \in npcPending : \E t \in Roster(G) \cup {Null} : NpcDayVote(c, t)
  \/ \E c \in npcPending : \E b \in BOOLEAN : NpcExecute(c, b)

Next == Lobby \/ Clients \/ Runtime

Spec == Init /\ [][Next]_vars

----------------------------------------------------------------------------
(* The resolvers on the rosters, ledgers and VoteMaps of a running game.   *)
(* A running game is entered by start_game; the host's role and alive      *)
(* overrides and the unvalidated night_action and day_vote payloads make   *)
(* every roster, ledger and VoteMap drawn below one the session can be in. *)

\* a player object in a running game
playerOf(role, alive, heals) ==
  [role |-> role, alignment |-> roleAlignments(role), alive |-> alive,
   isTurned |-> FALSE, healsRemaining |-> IF role = "Doctor" THEN heals ELSE Undefined,
   isNPC |-> FALSE, inRoster |-> TRUE]

\* a session in phase ph of round r with roster pl and its countdown running
running(ph, r, pl, cb) ==
  [NewGame EXCEPT !.state = ph, !.round = r, !.players = pl,
                  !.timer = PhaseSeconds, !.interval = 1, !.timerCallback = cb,
                  !.intervals = {[id |-> 1, cb |-> cb]},
                  !.nextId = RosterSize + 1, !.inputs = 0]

ResolverIds == 1 .. RosterSize

(* Win-condition evaluator *)

WinRosters ==
  {[p \in ResolverIds |-> playerOf(rs[p], al[p], 3)] :
     rs \in [ResolverIds -> {"Citizen", "Vampire", "Jester"}],
     al \in [ResolverIds -> BOOLEAN]}

\* the resolver is about to make its one call of the evaluator
InitWin ==
  \E pl \in WinRosters :
    \/ Is([running("NIGHT", 1, pl, "resolveNight") EXCEPT !.inputs = 1])
    \/ Is([running("DAY_VOTE", 1, pl, "resolveVoting") EXCEPT !.inputs = 1])

\* this.checkWinCondition(), as resolveNight and resolveVoting call it
checkWin ==
  /\ state # "GAME_OVER"
  /\ canSpend
  /\ Becomes(spend(checkWinCondition(G)))

NextWin == checkWin

SpecWin == InitWin /\ [][NextWin]_vars

(* Lynch resolver and night resolver: a night or a vote of a running game, *)
(* the submissions of its players, and the countdown                       *)

\* the roles dealt to the roster
resolverRole(p) ==
  CASE p = 1 -> "Vampire"
    [] p = 2 -> "Vampire"
    [] p = 3 -> "Doctor"
    [] p = 4 -> "Jailor"
    [] p = 5 -> "Jester"
    [] OTHER -> "Citizen"

resolverRoster(al) == [p \in ResolverIds |-> playerOf(resolverRole(p), al[p], 3)]

InitVote ==
  \E al \in [ResolverIds -> BOOLEAN] :
    Is([running("DAY_VOTE", 1, resolverRoster(al), "resolveVoting")
          EXCEPT !.inputs = MaxSubmissions])

NextVote ==
  \/ \E p \in ResolverIds : \E t \in ResolverIds \cup {Null, UnknownId} : day_vote(p, t)
  \/ TimerTick
  \/ skip_timer

SpecVote == InitVote /\ [][NextVote]_vars

\* the rosters a night starts on: everybody alive, or the last player dead
NightAlive ==
  {[p \in ResolverIds |-> TRUE], [p \in ResolverIds |-> p # RosterSize]}

NightTypes == {"BITE", "HEAL", "JAIL", "EXECUTE"}

InitNight ==
  \E al \in NightAlive : \E r \in 1 .. MaxRound :
    Is([running("NIGHT", r, resolverRoster(al), "resolveNight")
          EXCEPT !.inputs = MaxSubmissions])

NextNight ==
  \/ \E p \in ResolverIds : \E a \in payloads(NightTypes, ResolverIds) : night_action(p, a)
  \/ TimerTick
  \/ skip_timer

SpecNight == InitNight /\ [][NextNight]_vars

(* The night-action ledger: the nights of a running game with every action *)
(* type submitted, by humans and by NPC decisions, and their resolution    *)

\* the first round in which a Doctor can have spent the three heals
LateRound == 4

\* the two rosters: two Jailors, a Vampire Framer, an Investigator and a
\* Vampire, all human; or a Jailor, a Doctor, a Vampire and two NPCs, a Doctor
\* and a Jailor
ledgerRole(cast, p) ==
  IF cast = "framer"
  THEN CASE p = 1 -> "Jailor"
         [] p = 2 -> "Jailor"
         [] p = 3 -> "Vampire Framer"
         [] p = 4 -> "Investigator"
         [] p = 5 -> "Vampire"
         [] OTHER -> "Citizen"
  ELSE CASE p = 1 -> "Jailor"
         [] p = 2 -> "Doctor"
         [] p = 3 -> "Doctor"
         [] p = 4 -> "Vampire"
         [] p = 5 -> "Jailor"
         [] OTHER -> "Citizen"

ledgerNPCs(cast) == IF cast = "framer" THEN {} ELSE {3, 5}

ledgerRoster(cast, heals) ==
  [p \in ResolverIds |->
     [playerOf(ledgerRole(cast, p), TRUE, heals) EXCEPT !.isNPC = p \in ledgerNPCs(cast)]]

\* the night has just started: Game.startNight has scheduled the NPC callbacks
InitLedger ==
  \E cast \in {"framer", "npc"} : \E r \in (1 .. MaxRound) \cup {LateRound} :
    \E heals \in IF r = LateRound THEN {0, 3} ELSE {3} :
      Is(triggerAIActions(
           [running("NIGHT", r, ledgerRoster(cast, heals), "resolveNight")
              EXCEPT !.inputs = LedgerInputs]))

LedgerTypes ==
  {"BITE", "HEAL", "JAIL", "EXECUTE", "CANCEL_EXECUTE", "FRAME", "INVESTIGATE", "LOOKOUT"}
LedgerTargets == {1, 2, 3, UnknownId}
\* the decisions of the oracle: an action and the id of the player it names
LedgerDecisions ==
  {[action |-> a, targetId |-> t] : a \in {"BITE", "HEAL", "JAIL", "EXECUTE"},
                                    t \in {1, 2, Null}}

NextLedger ==
  \/ \E p \in ResolverIds : \E a \in payloads(LedgerTypes, LedgerTargets) : night_action(p, a)
  \/ TimerTick
  \/ skip_timer
  \/ NpcTimeout
  \/ \E c \in npcPending : \E d \in LedgerDecisions : NpcNightAction(c, d)
  \/ \E c \in npcPending : \E b \in BOOLEAN : NpcExecute(c, b)

SpecLedger == InitLedger /\ [][NextLedger]_vars

----------------------------------------------------------------------------
(* The state view of a recipient: Game.broadcastUpdate *)

\* an optional field of a view: <<x>> when present, << >> when undefined
shown(x) == <<x>>
hidden == << >>

\* Game.countVotesFor
countVotesFor(g, pid) ==
  IF g.state # "DAY_VOTE" THEN 0
  ELSE Cardinality({v \in DOMAIN g.votes : g.votes[v] = pid})

\* Game.countVampireVotesFor
countVampireVotesFor(g, pid) ==
  IF g.state # "NIGHT" THEN 0
  ELSE Cardinality({k \in DOMAIN g.nightActions :
                      g.nightActions[k].type = "BITE" /\ g.nightActions[k].targetId = pid})

\* the jailInfo field of the view of player
jailInfo(g, player) ==
  IF g.state = "NIGHT" /\ (player = g.jailorId \/ player = g.jailedPlayerId)
  THEN shown([isJailor |-> player = g.jailorId,
              isJailed |-> player = g.jailedPlayerId,
              prisonerName |-> IF player # g.jailorId THEN Null
                               ELSE IF g.jailedPlayerId \in Roster(g)
                                    THEN g.jailedPlayerId ELSE Undefined,
              jailorName |-> IF player # g.jailedPlayerId THEN Null
                             ELSE IF g.jailorId \in Roster(g)
                                  THEN g.jailorId ELSE Undefined])
  ELSE hidden

\* a view whose vampire markers are sent to every recipient
viewFor_markAll(g, player) ==
  [state |-> g.state, round |-> g.round, timer |-> g.timer, winner |-> g.winner,
   logs |-> g.logs, gameChat |-> g.gameChat,
   healsRemaining |-> IF g.players[player].role = "Doctor"
                      THEN shown(g.players[player].healsRemaining) ELSE hidden,
   players |-> [p \in Roster(g) |->
      [alive |-> g.players[p].alive,
       votes |-> countVotesFor(g, p),
       isNPC |-> g.players[p].isNPC,
       role |-> IF g.state = "GAME_OVER" THEN shown(g.players[p].role) ELSE hidden,
       alignment |-> IF g.state = "GAME_OVER" THEN shown(g.players[p].alignment) ELSE hidden,
       isVampire |-> shown(isVampireRole(g.players[p].role)),
       vampireRole |-> hidden,
       vampireVotes |-> hidden]],
   vampireInfo |-> hidden,
   jailInfo |-> jailInfo(g, player)]

\* the playerState that broadcastUpdate emits to player (ids stand for names)
viewFor(g, player) ==
  LET isVampire == isVampireRole(g.players[player].role)
      aliveVampires == {p \in Living(g) : isVampireRole(g.players[p].role)}
      vampireCount == Cardinality(aliveVampires)
      coordinating == isVampire /\ g.state = "NIGHT" /\ canTurn(g)
  IN [state |-> g.state, round |-> g.round, timer |-> g.timer, winner |-> g.winner,
      logs |-> g.logs, gameChat |-> g.gameChat,
      healsRemaining |-> IF g.players[player].role = "Doctor"
                         THEN shown(g.players[player].healsRemaining) ELSE hidden,
      players |-> [p \in Roster(g) |->
         [alive |-> g.players[p].alive,
          votes |-> countVotesFor(g, p),
          isNPC |-> g.players[p].isNPC,
          role |-> IF g.state = "GAME_OVER" THEN shown(g.players[p].role) ELSE hidden,
          alignment |-> IF g.state = "GAME_OVER" THEN shown(g.players[p].alignment) ELSE hidden,
          isVampire |-> IF isVampire THEN shown(isVampireRole(g.players[p].role)) ELSE hidden,
          vampireRole |-> IF isVampire /\ isVampireRole(g.players[p].role)
                          THEN shown(g.players[p].role) ELSE hidden,
          vampireVotes |-> IF coordinating THEN shown(countVampireVotesFor(g, p)) ELSE hidden]],
      vampireInfo |-> IF coordinating
                      THEN shown([totalVampires |-> vampireCount, requiredVotes |-> 1,
                                  needsVoting |-> vampireCount > 1])
                      ELSE hidden,
      jailInfo |-> jailInfo(g, player)]

----------------------------------------------------------------------------
(* Role assignment alone: a lobby of 1 .. RolePlayers players, started with *)
(* any roleConfig payload                                                   *)

\* the roles a payload of this specification counts
CountedRoles == {"Doctor", "Jailor", "Vampire", "Vampire Framer", "Jester"}

\* the roleConfig payloads: every count of the counted roles, and the default
RoleConfigs ==
  {[useDefault |-> FALSE,
    counts |-> [r \in ConfigRoles |-> IF r \in CountedRoles THEN c[r] ELSE 0]] :
     c \in [CountedRoles -> 0 .. MaxCount]}
  \cup {[useDefault |-> TRUE, counts |-> [r \in ConfigRoles |-> 0]]}

\* the lobby after n - 1 players joined the host
lobby(n) ==
  [NewGame EXCEPT !.players = [p \in 1 .. n |-> newPlayer(FALSE)],
                  !.nextId = n + 1, !.inputs = 0]

InitRoles == \E n \in 1 .. RolePlayers : Is(lobby(n))

\* the first start_game of the session
NextRoles == state = "LOBBY" /\ \E cfg \in RoleConfigs : start_game(cfg)

SpecRoles == InitRoles /\ [][NextRoles]_vars

----------------------------------------------------------------------------
(* A session whose game ended in the win check of a night with an          *)
(* execution, and in which the host sends start_game again                 *)

\* player 1 is the Jailor, player 2 its good prisoner, players 3 and 4 are
\* Vampires
rematchRole(p) ==
  CASE p = 1 -> "Jailor"
    [] p \in {3, 4} -> "Vampire"
    [] OTHER -> "Citizen"

\* the night of round 1 in which the Jailor has jailed player 2 and sent
\* EXECUTE
executionNight ==
  LET g == running("NIGHT", 1, [p \in ResolverIds |-> playerOf(rematchRole(p), TRUE, 3)],
                   "resolveNight")
  IN nightAction(nightAction([g EXCEPT !.inputs = RematchInputs], 1,
                             [type |-> "JAIL", targetId |-> 2, clear |-> FALSE]),
                 1, [type |-> "EXECUTE", targetId |-> Null, clear |-> FALSE])

\* the night has been resolved and its win check has ended the game
InitRematch ==
  \E g \in resolveNight(executionNight) : g.state = "GAME_OVER" /\ Is(g)

NextRematch ==
  \/ \E cfg \in StartConfigs : start_game(cfg)
  \/ \E p \in ResolverIds : \E a \in payloads(SessionTypes, ResolverIds) : night_action(p, a)
  \/ TimerTick
  \/ skip_timer

SpecRematch == InitRematch /\ [][NextRematch]_vars

----------------------------------------------------------------------------
(* Chat: a night of five human players (two Jailors, a Vampire Framer, an  *)
(* Investigator and a Vampire) with chat messages and night actions        *)

InitChat ==
  \E r \in 1 .. MaxRound :
    Is([running("NIGHT", r, ledgerRoster("framer", 3), "resolveNight")
          EXCEPT !.inputs = ChatInputs])

NextChat ==
  \/ \E p \in ResolverIds : chat_message(p)
  \/ \E p \in ResolverIds : \E a \in payloads({"BITE", "INVESTIGATE"}, {1, 2}) :
       night_action(p, a)
  \/ TimerTick
  \/ skip_timer

SpecChat == InitChat /\ [][NextChat]_vars

----------------------------------------------------------------------------
(* Role assignment with an NPC role restriction: a lobby of the host, other *)
(* humans and NPCs                                                          *)

\* the roleConfig payloads: at most one of each counted role, or the default
NpcConfigs == {cfg \in RoleConfigs : \A r \in ConfigRoles : cfg.counts[r] <= 1}

\* the sets of roles a session's settings disallow for NPCs
Restrictions == (SUBSET {"Vampire", "Doctor", "Citizen"}) \ {{}}

\* the lobby of n players of which those in npcs are NPCs
lobbyWith(n, npcs) ==
  [NewGame EXCEPT !.players = [p \in 1 .. n |-> newPlayer(p \in npcs)],
                  !.nextId = n + 1, !.inputs = 0]

InitNpcRoles ==
  \E n \in 2 .. RolePlayers : \E npcs \in (SUBSET (2 .. n)) \ {{}} : Is(lobbyWith(n, npcs))

NextNpcRoles ==
  \E cfg \in NpcConfigs : \E d \in Restrictions : start_game_restricted(cfg, d)

SpecNpcRoles == InitNpcRoles /\ [][NextNpcRoles]_vars

----------------------------------------------------------------------------
(* The session of Spec when its settings may disallow roles for NPCs *)

SessionRestrictions == {{"Vampire"}, {"Vampire", "Jester", "Jailor"}}

NextRestricted ==
  \/ Next
  \/ \E cfg \in StartConfigs : \E d \in SessionRestrictions : start_game_restricted(cfg, d)

SpecRestricted == Init /\ [][NextRestricted]_vars

----------------------------------------------------------------------------
(* Resolution order: a night of five human players (two Jailors, a Vampire *)
(* Framer, an Investigator and a Vampire) with bites, frames,              *)
(* investigations and the host's overrides                                 *)

InitOrder ==
  \E r \in 1 .. MaxRound :
    Is([running("NIGHT", r, ledgerRoster("framer", 3), "resolveNight")
          EXCEPT !.inputs = OrderInputs])

NextOrder ==
  \/ \E p \in {3, 4, 5} : \E a \in payloads({"BITE", "FRAME", "INVESTIGATE"}, {1, 2}) :
       night_action(p, a)
  \/ TimerTick
  \/ skip_timer
  \/ \E t \in {3} : \E r \in {"Citizen"} : change_player_role(t, r)
  \/ \E t \in {3} : \E alive \in BOOLEAN : set_player_alive_status(t, alive)

SpecOrder == InitOrder /\ [][NextOrder]_vars

----------------------------------------------------------------------------
(* The jail: a night of five human players (two Jailors, a Vampire Framer, *)
(* an Investigator and a Vampire) with the Jailors' messages               *)

InitJail ==
  \E r \in 1 .. MaxRound :
    Is([running("NIGHT", r, ledgerRoster("framer", 3), "resolveNight")
          EXCEPT !.inputs = JailInputs])

NextJail ==
  \/ \E p \in {1, 2} :
       \E a \in payloads({"JAIL", "EXECUTE", "CANCEL_EXECUTE"}, {2, 3, 4}) :
         night_action(p, a)
  \/ TimerTick
  \/ skip_timer

SpecJail == InitJail /\ [][NextJail]_vars

----------------------------------------------------------------------------
(* Properties *)

\* the living players and the living evil-aligned players of a roster
livingOf(pl) == {p \in DOMAIN pl : pl[p].inRoster /\ pl[p].alive}
evilOf(pl) == {p \in livingOf(pl) : pl[p].alignment = "evil"}

\* C5: checkWinCondition ends the game with winner GOOD iff no living player
\* is evil, else with winner EVIL iff 2 * evil >= living, and otherwise leaves
\* state and winner unchanged.
C5_WinCondition ==
  [][LET living == Cardinality(livingOf(players))
         evil == Cardinality(evilOf(players))
     IN /\ evil = 0 => state' = "GAME_OVER" /\ winner' = "GOOD"
        /\ evil > 0 /\ 2 * evil >= living => state' = "GAME_OVER" /\ winner' = "EVIL"
        /\ evil > 0 /\ 2 * evil < living => state' = state /\ winner' = winner
        /\ players' = players]_vars

\* C5 witness: four living players, two of them evil, and EVIL has won
C5_Witness ==
  /\ state = "GAME_OVER"
  /\ winner = "EVIL"
  /\ Cardinality(livingOf(players)) = 4
  /\ Cardinality(evilOf(players)) = 2
  /\ <<round, "evilWins">> \in logs

\* the phase changes of the design: the cycle, the two resolver exits, and the
\* host's end_game from any phase
AllowedEdges ==
  {<<"LOBBY", "NIGHT">>, <<"NIGHT", "DAY_DISCUSS">>, <<"DAY_DISCUSS", "DAY_VOTE">>,
   <<"DAY_VOTE", "NIGHT">>, <<"NIGHT", "GAME_OVER">>, <<"DAY_VOTE", "GAME_OVER">>}

\* C1: the phase changes only along LOBBY->NIGHT, NIGHT->DAY_DISCUSS,
\* DAY_DISCUSS->DAY_VOTE, DAY_VOTE->NIGHT, NIGHT->GAME_OVER, DAY_VOTE->GAME_OVER
\* and any phase->GAME_OVER by the host's end_game.
C1_PhaseEdges ==
  [][\/ state' = state
     \/ <<state, state'>> \in AllowedEdges
     \/ state' = "GAME_OVER" /\ winner' = "Host Ended"]_vars

\* C2: GAME_OVER is terminal: once entered the phase never changes again, and
\* no countdown is running in it.
C2_GameOverTerminal ==
  [][/\ state = "GAME_OVER" => state' = "GAME_OVER"
     /\ state' = "GAME_OVER" => intervals' = {}]_vars

\* C3: resolveNight runs at most once per NIGHT entry, resolveVoting at most
\* once per DAY_VOTE entry, and at most one countdown is pending at any time.
C3_ResolveOnce ==
  /\ nightRuns <= 1
  /\ voteRuns <= 1
  /\ Cardinality(intervals) <= 1

\* C3 witness: the night and the vote of a round have both been resolved and
\* the next countdown is the only one pending
C3_Witness ==
  /\ nightRuns = 1
  /\ voteRuns = 1
  /\ Cardinality(intervals) = 1

\* a countdown is pending: the interval this.interval names is live
countdownPending == \E i \in intervals : i.id = interval

\* C4: the session is never in NIGHT, DAY_DISCUSS or DAY_VOTE without a
\* pending countdown, whatever the ledger, the VoteMap and the roster are.
C4_NeverStuck ==
  state \in {"NIGHT", "DAY_DISCUSS", "DAY_VOTE"} => countdownPending

\* a roster on which checkWinCondition would end the game
winConditionOn(pl) ==
  \/ evilOf(pl) = {}
  \/ 2 * Cardinality(evilOf(pl)) >= Cardinality(livingOf(pl))

\* C6: after every death the win evaluator has run: no step in which a player
\* dies leaves a countdown running in a non-terminal phase whose roster
\* satisfies a win condition.
C6_WinCheckedAfterDeath ==
  [][(/\ ~winConditionOn(players)
      /\ \E p \in DOMAIN players :
        /\ players[p].inRoster /\ players[p].alive
        /\ players'[p].inRoster /\ ~players'[p].alive)
     => \/ state' = "GAME_OVER"
        \/ intervals' = {}
        \/ ~winConditionOn(players')]_vars

\* a step of resolveVoting, a step of resolveNight
lynchStep == voteRuns' = voteRuns + 1
nightStep == nightRuns' = nightRuns + 1

\* the players who die in a step
died == {p \in DOMAIN players : players[p].alive /\ ~players'[p].alive}

\* the number of VoteMap entries that name t, and the targets named
ballots(t) == Cardinality({v \in DOMAIN votes : votes[v] = t})
named == {votes[v] : v \in DOMAIN votes}

\* C7: resolveVoting lynches a target only if twice its votes reach the number
\* of living players; if some target meets the threshold exactly one player
\* dies, and if none does nobody dies.
C7_LynchThreshold ==
  [][lynchStep =>
       LET living == Cardinality(livingOf(players))
       IN /\ \A p \in died : 2 * ballots(p) >= living
          /\ (\E t \in named : 2 * ballots(t) >= living) => Cardinality(died) = 1
          /\ (\A t \in named : 2 * ballots(t) < living) => died = {}]_vars

\* C8: when the player lynched by resolveVoting is the Jester, the session goes
\* to GAME_OVER with winner Jester in that step: the win evaluator is not run,
\* no NIGHT is entered and no countdown is left, whatever the counts are.
C8_JesterLynch ==
  [][\A p \in DOMAIN players :
       lynchStep /\ p \in died /\ players[p].role = "Jester"
       => /\ state' = "GAME_OVER"
          /\ winner' = "Jester"
          /\ round' = round
          /\ intervals' = {}
          /\ logs' \ logs = {<<round, "lynched">>, <<round, "jesterWins">>}]_vars

\* C8 witness: the Jester was lynched and won although no evil player is alive
C8_Witness ==
  /\ state = "GAME_OVER"
  /\ winner = "Jester"
  /\ voteRuns = 1
  /\ evilOf(players) = {}
  /\ \E p \in DOMAIN players :
       /\ players[p].role = "Jester" /\ ~players[p].alive
       /\ 2 * ballots(p) >= Cardinality(livingOf(players)) + 1

\* a player's role, alignment and isTurned are the same after the step
sameRole(p) ==
  /\ players'[p].role = players[p].role
  /\ players'[p].alignment = players[p].alignment
  /\ players'[p].isTurned = players[p].isTurned

\* C9: in an odd round resolveNight changes no player's role, alignment or
\* isTurned, and a player becomes turned only in an even-round resolveNight.
C9_OddRoundNoTurn ==
  [][/\ nightStep /\ round % 2 = 1 => \A p \in DOMAIN players : sameRole(p)
     /\ \A p \in DOMAIN players :
          ~players[p].isTurned /\ players'[p].isTurned => nightStep /\ round % 2 = 0]_vars

\* the ledger entries of a type on a target, and what the ledger says of t
entriesOn(type, t) ==
  {k \in DOMAIN nightActions :
     nightActions[k].type = type /\ nightActions[k].targetId = t}
bitesOn(t) == Cardinality(entriesOn("BITE", t))
bitten == {t \in DOMAIN players : bitesOn(t) > 0}
mostBitten == {t \in bitten : \A u \in bitten : bitesOn(u) <= bitesOn(t)}

\* C9 witness: an odd night was resolved with a BITE on a living, unhealed
\* non-vampire, who is not turned
C9_Witness ==
  /\ state = "DAY_DISCUSS" /\ round = 1 /\ nightRuns = 1
  /\ \E t \in bitten :
       /\ players[t].alive
       /\ players[t].alignment # "evil"
       /\ ~players[t].isTurned
       /\ entriesOn("HEAL", t) = {}

\* the target is immune: already evil, jailed, or the target of a HEAL
immune(t) ==
  \/ players[t].alignment = "evil"
  \/ jailedPlayerId = t
  \/ entriesOn("HEAL", t) # {}

becomesVampire(p) ==
  /\ players'[p].role = "Vampire"
  /\ players'[p].alignment = "evil"
  /\ players'[p].isTurned

\* the even-round rule: an immune player is unchanged, and for one of the
\* most bitten targets either it is living and not immune and becomes a
\* Vampire, or nobody changes
evenRoundRule ==
  /\ \A p \in DOMAIN players : immune(p) => sameRole(p)
  /\ mostBitten # {} =>
       \E c \in mostBitten :
         IF players[c].alive /\ ~immune(c)
         THEN becomesVampire(c)
         ELSE \A p \in DOMAIN players : sameRole(p)

\* two Vampires BITE x and a Doctor HEALs x
doubleBiteHealed(x) ==
  /\ Cardinality({k \in entriesOn("BITE", x) :
                    /\ nightActions[k].actorId \in DOMAIN players
                    /\ players[nightActions[k].actorId].role = "Vampire"}) >= 2
  /\ \E k \in entriesOn("HEAL", x) :
       /\ nightActions[k].actorId \in DOMAIN players
       /\ players[nightActions[k].actorId].role = "Doctor"

savedByDoctor(x) ==
  /\ players'[x].alive
  /\ players'[x].role = players[x].role
  /\ <<round, "saved">> \in logs'

turnedNow == {p \in DOMAIN players : ~players[p].isTurned /\ players'[p].isTurned}

\* C11: in an even-round night resolution the player turned, if any, is one
\* of the targets with the maximum number of BITE entries in the ledger, and
\* at most one player is turned in the round.
C11_TurnedIsMostBitten ==
  [][/\ nightStep => turnedNow \subseteq mostBitten /\ Cardinality(turnedNow) <= 1
     /\ turnedNow # {} => nightStep /\ nightRuns = 0]_vars

\* C11 witness: round 2 was resolved on a tied tally and one of the tied
\* targets was turned
C11_Witness ==
  /\ state \in {"DAY_DISCUSS", "GAME_OVER"} /\ round = 2 /\ nightRuns = 1
  /\ Cardinality(mostBitten) >= 2
  /\ \E p \in mostBitten : players[p].isTurned
  /\ Cardinality({p \in DOMAIN players : players[p].isTurned}) = 1

\* the player p has a HEAL entry of its own in the ledger
submittedHeal(p) == p \in DOMAIN nightActions /\ nightActions[p].type = "HEAL"

\* C12: at every night resolution a Doctor whose HEAL entry is in the ledger
\* (human or NPC) ends with healsRemaining = max(0, before - 1), and a Doctor
\* with no HEAL entry keeps its healsRemaining.
C12_HealConsumed ==
  [][nightStep =>
       \A p \in DOMAIN players :
         players[p].role = "Doctor" =>
           players'[p].healsRemaining =
             IF submittedHeal(p) /\ players[p].healsRemaining > 0
             THEN players[p].healsRemaining - 1
             ELSE players[p].healsRemaining]_vars

\* the ledger entries of the player p: the entry under its id, the FRAME
\* entry under its frame key, and any entry naming it as actor
ownEntries(p) ==
  {k \in DOMAIN nightActions :
     k = p \/ k = p + FrameOffset \/ nightActions[k].actorId = p}

\* C13: when the night resolves, the jailed prisoner has no INVESTIGATE,
\* LOOKOUT, HEAL, BITE or FRAME entry of their own in the ledger, whoever
\* jailed them.
C13_PrisonerHasNoAction ==
  [][nightStep /\ jailedPlayerId # Null =>
       \A k \in ownEntries(jailedPlayerId) :
         nightActions[k].type \notin {"INVESTIGATE", "LOOKOUT", "HEAL", "BITE", "FRAME"}]_vars

\* the payloads a jailed player can send with a type other than EXECUTE and a
\* target
blockedPayloads ==
  {[type |-> ty, targetId |-> t, clear |-> FALSE] :
     ty \in {"JAIL", "BITE", "HEAL", "FRAME", "INVESTIGATE", "LOOKOUT"},
     t \in DOMAIN players \cup {UnknownId}}

\* the ledger and the JailState of a game record are those of the state
sameLedgerAndJail(g) ==
  /\ g.nightActions = nightActions
  /\ g.jailedPlayerId = jailedPlayerId
  /\ g.jailorId = jailorId

\* C14: while a player is the jailed prisoner, every night_action they send
\* with a type other than EXECUTE leaves the ledger and the JailState
\* unchanged.
C14_PrisonerBlocked ==
  state = "NIGHT" /\ jailedPlayerId \in Humans(G) =>
    \A a \in blockedPayloads : sameLedgerAndJail(nightAction(G, jailedPlayerId, a))

\* the players framed by the ledger: the targets of the FRAME entries whose
\* actor is a living Vampire Framer
framedByLedger ==
  {nightActions[k].targetId :
     k \in {j \in DOMAIN nightActions :
              /\ nightActions[j].type = "FRAME"
              /\ nightActions[j].actorId \in DOMAIN players
              /\ players[nightActions[j].actorId].inRoster
              /\ players[nightActions[j].actorId].role = "Vampire Framer"
              /\ players[nightActions[j].actorId].alive}}

\* the role a resolution reports for target t when t is not framed
actualRole(t) ==
  IF t \in DOMAIN players /\ players[t].inRoster THEN players'[t].role ELSE "Unknown"

\* C15: an INVESTIGATE resolved in a round reports 'Vampire' for a target
\* framed in that round and the target's actual role for a target not framed
\* in that round (so a frame of the round before has no effect), and the
\* framed set is empty whenever a NIGHT is running.
C15_FrameLastsOneRound ==
  [][/\ state' = "NIGHT" => framedPlayers' = {}
     /\ nightStep =>
          \A k \in DOMAIN investigationResults' :
            nightActions[k].type = "INVESTIGATE" =>
              investigationResults'[k].role =
                IF nightActions[k].targetId \in framedByLedger
                THEN "Vampire"
                ELSE actualRole(nightActions[k].targetId)]_vars

\* C15 witness: a night was resolved in which a framed player who is no
\* vampire was reported as a Vampire to an investigator
C15_Witness ==
  /\ state = "DAY_DISCUSS" /\ nightRuns = 1
  /\ \E k \in DOMAIN investigationResults :
       /\ k \in DOMAIN nightActions
       /\ nightActions[k].type = "INVESTIGATE"
       /\ nightActions[k].targetId \in framedPlayers
       /\ nightActions[k].targetId \in DOMAIN players
       /\ players[nightActions[k].targetId].alignment # "evil"
       /\ investigationResults[k].role = "Vampire"

\* the player a ledger key belongs to
ownerOf(k) == IF k > FrameOffset THEN k - FrameOffset ELSE k

\* the role is capable of the action type
capable(role, type) ==
  CASE type = "BITE" -> role \in {"Vampire", "Vampire Framer"}
    [] type = "INVESTIGATE" -> role = "Investigator"
    [] type = "LOOKOUT" -> role = "Lookout"
    [] type = "HEAL" -> role = "Doctor"
    [] type = "FRAME" -> role = "Vampire Framer"
    [] type = "EXECUTE" -> role = "Jailor"
    [] OTHER -> FALSE

\* C16: every entry of the ledger of a running night belongs to a living
\* actor whose role is capable of the entry's action type.
C16_EntriesOfCapableActors ==
  state = "NIGHT" =>
    \A k \in DOMAIN nightActions :
      /\ ownerOf(k) \in DOMAIN players
      /\ players[ownerOf(k)].alive
      /\ capable(players[ownerOf(k)].role, nightActions[k].type)

\* the payload a of the player p is one the handler rejects: BITE or FRAME on
\* a fellow vampire, HEAL without heals, JAIL of self or of a dead or unknown
\* target, EXECUTE by a Jailor who holds no prisoner
rejectedCase(p, a) ==
  LET t == a.targetId
      knows == t \in DOMAIN players /\ players[t].inRoster
  IN \/ /\ a.type = "BITE"
        /\ knows /\ players[t].role \in {"Vampire", "Vampire Framer"}
     \/ /\ a.type = "FRAME" /\ players[p].role = "Vampire Framer"
        /\ knows /\ players[t].role \in {"Vampire", "Vampire Framer"}
     \/ /\ a.type = "HEAL" /\ players[p].role = "Doctor"
        /\ players[p].healsRemaining = 0
     \/ /\ a.type = "JAIL" /\ players[p].role = "Jailor"
        /\ (t = p \/ ~knows \/ ~players[t].alive)
     \/ /\ a.type = "EXECUTE" /\ players[p].role = "Jailor"
        /\ jailorId # p

submittable ==
  {[type |-> ty, targetId |-> t, clear |-> FALSE] :
     ty \in {"BITE", "FRAME", "HEAL", "JAIL", "EXECUTE"},
     t \in DOMAIN players \cup {UnknownId}}

\* C17: a rejected night action leaves the ledger, the JailState, the
\* FramedSet and every roster field (the whole session) unchanged.
C17_RejectionChangesNothing ==
  state = "NIGHT" =>
    \A p \in Humans(G) : \A a \in submittable :
      rejectedCase(p, a) => nightAction(G, p, a) = G

\* C17 witness: a night with entries in the ledger in which a Doctor has no
\* heals left, and a prisoner is held
C17_Witness ==
  /\ state = "NIGHT"
  /\ DOMAIN nightActions # {}
  /\ jailedPlayerId # Null
  /\ \E p \in Humans(G) : players[p].role = "Doctor" /\ players[p].healsRemaining = 0

\* what the night_action handler does with the same action sent by the NPC's
\* player as a human
humanPath(npc, d) ==
  IF state = "NIGHT"
  THEN nightAction(G, npc, [type |-> d.action, targetId |-> d.targetId, clear |-> FALSE])
  ELSE G

\* C18: every change an NPC night decision makes to the ledger or the
\* JailState is the change the night_action handler makes for the same player,
\* action and target in the same state.
C18_NpcAsHuman ==
  \A c \in npcPending :
    c.kind = "night" /\ c.stage = "await" =>
      \A d \in {[action |-> a, targetId |-> t] :
                  a \in {"BITE", "HEAL", "JAIL", "EXECUTE", "INVESTIGATE", "LOOKOUT"},
                  t \in Roster(G)} :
        LET n == npcNightDecision(G, c.npc, d)
            h == humanPath(c.npc, d)
        IN /\ n.nightActions = h.nightActions
           /\ n.jailedPlayerId = h.jailedPlayerId
           /\ n.jailorId = h.jailorId

\* the phase a deferred NPC callback was scheduled in
phaseOf(c) == IF c.kind \in {"vote", "revote"} THEN "DAY_VOTE" ELSE "NIGHT"

\* C19: a deferred NPC callback that completes with a write to the ledger, the
\* VoteMap or the JailState does so in the phase and round it was scheduled in.
C19_NoStaleWrite ==
  [][\A c \in npcPending \ npcPending' :
       /\ c.stage = "await"
       /\ \/ nightActions' # nightActions
          \/ votes' # votes
          \/ jailedPlayerId' # jailedPlayerId
          \/ jailorId' # jailorId
       => state = phaseOf(c) /\ round = c.round]_vars

\* the ids of this.players
rosterIds == {p \in DOMAIN players : players[p].inRoster}

\* C20: the set of player ids in the roster changes only while state = LOBBY.
C20_RosterFixedAfterStart ==
  [][rosterIds' # rosterIds => state = "LOBBY"]_vars

\* C21: once start_game has run (round >= 1), every player in the roster has
\* a role and an alignment, whatever the interleaving of add_npc's awaited
\* profile generation with start_game.
C21_RolesAfterStart ==
  round >= 1 =>
    \A p \in rosterIds : players[p].role # "null" /\ players[p].alignment # "null"

\* the states reached when the live interval i keeps firing, once a second
\* and with nothing else happening, until its countdown runs out
RECURSIVE expiry(_, _)
expiry(g, i) ==
  IF g.timer <= 1 THEN intervalTick(g, i)
  ELSE UNION {expiry(g1, i) : g1 \in intervalTick(g, i)}

countdownAside(S) == {[g EXCEPT !.timer = 0] : g \in S}

\* C22: in every NIGHT, DAY_DISCUSS or DAY_VOTE state the host's skip reaches
\* the same states as the natural expiry of the countdown from that state
\* (every variable of the session, the countdown value aside).
C22_SkipEqualsExpiry ==
  (state \in {"NIGHT", "DAY_DISCUSS", "DAY_VOTE"} /\ ~crashed) =>
    \E i \in intervals :
      /\ i.id = interval
      /\ countdownAside(skipTimer(G)) = countdownAside(expiry(G, i))

\* a night with a prisoner, the countdown not yet started to run down, whose
\* skip resolves the night with a death
C22_Witness ==
  /\ state = "NIGHT" /\ ~crashed
  /\ timer = PhaseSeconds
  /\ jailedPlayerId # Null
  /\ \E g \in skipTimer(G) : g.state # "NIGHT" /\ g.players # players

\* the session with the role and alignment of every player but r blanked
otherRolesErased(g, r) ==
  [g EXCEPT !.players = [p \in DOMAIN @ |->
     IF p = r THEN @[p] ELSE [@[p] EXCEPT !.role = "null", !.alignment = "null"]]]

jailParties == {jailorId, jailedPlayerId} \ {Null}

\* C24: jail info and the jail chat transcript go only to the current jailor
\* and the current jailed player, and only during NIGHT: the jailInfo field
\* of every view, the jail_chat_update of every client jail_chat_message, and
\* the jail_chat_update of every NPC execute decision whose oracle call is
\* in flight and may return in this state.
C24_JailChatPrivate ==
  /\ \A r \in rosterIds :
       jailInfo(G, r) # hidden => state = "NIGHT" /\ r \in jailParties
  /\ \A p \in Humans(G) :
       /\ jailChatMessage(G, p) \subseteq jailParties
       /\ jailChatMessage(G, p) # {} => state = "NIGHT"
  /\ \A c \in npcPending :
       (c.kind = "execute" /\ c.stage = "await") =>
         /\ executeDecisionUpdate(G, c) \subseteq jailParties
         /\ executeDecisionUpdate(G, c) # {} => state = "NIGHT"

\* the roles held in the roster of g, counted
roleBag(g) == [r \in Roles |-> Cardinality({p \in Roster(g) : g.players[p].role = r})]

requested(cfg, S) == bagSum(cfg.counts, S \cap ConfigRoles)

\* the trimming rule on the roles assigned from the lobby G with the explicit
\* payload cfg; evilFloor says when the evil floor is claimed
trimmingRule(evilFloor(_, _)) ==
  state = "LOBBY" =>
    \A cfg \in RoleConfigs :
      LET total == Cardinality(Roster(G))
          minGood == (total \div 2) + 1
      IN (~cfg.useDefault /\ requested(cfg, Roles) > total) =>
           \A g \in assignRoles(G, cfg) :
             LET b == roleBag(g)
             IN /\ bagSize(b) = total
                /\ \A p \in Roster(g) : g.players[p].role \in Roles
                /\ (requested(cfg, EvilRoles) >= 1 /\ evilFloor(cfg, total))
                     => bagSum(b, EvilRoles) >= 1
                /\ (requested(cfg, GoodRoles) >= minGood /\ 1 + minGood <= total)
                     => bagSum(b, GoodRoles) >= minGood
                /\ bagSum(b, NeutralRoles) < requested(cfg, NeutralRoles)
                     => bagSum(b, EvilRoles) <= 1
                /\ bagSum(b, GoodRoles) < requested(cfg, GoodRoles)
                     => bagSum(b, NeutralRoles) = 0

always(cfg, total) == TRUE
floorsFit(cfg, total) ==
  \/ 1 + (total \div 2) + 1 <= total
  \/ requested(cfg, GoodRoles) < (total \div 2) + 1

\* C25 as stated: an explicit payload that requests more roles than players
\* is trimmed to exactly total roles, with at least one evil role whenever
\* one was requested, with at least floor(total/2)+1 good roles whenever that
\* many were requested and both floors fit in total, neutral roles removed
\* only with the evil roles at their floor and good roles only with no
\* neutral role left.
C25_AsStated == trimmingRule(always)

\* C25: the same, the evil floor being kept whenever an evil role was
\* requested and both floors fit in total or fewer than floor(total/2)+1 good
\* roles were requested.
C25_Trimming == trimmingRule(floorsFit)

\* a game started from a lobby whose payload had to lose an evil, a neutral
\* and a good role to fit
C25_Witness ==
  /\ state = "NIGHT"
  /\ \E cfg \in RoleConfigs :
       LET total == Cardinality(Roster(G))
       IN /\ ~cfg.useDefault
          /\ requested(cfg, Roles) > total
          /\ bagSum(roleBag(G), EvilRoles) < requested(cfg, EvilRoles)
          /\ bagSum(roleBag(G), NeutralRoles) < requested(cfg, NeutralRoles)
          /\ bagSum(roleBag(G), GoodRoles) < requested(cfg, GoodRoles)
          /\ bagSum(roleBag(G), GoodRoles) = (total \div 2) + 1
          /\ roleBag(G) \in finalPools(cfg, total)

\* the default payload
defaultConfig == CHOOSE cfg \in RoleConfigs : cfg.useDefault

\* C26: with the default configuration and N players every player receives
\* one role and the roles assigned are max(1, floor(0.1 N)) each of
\* Investigator, Lookout and Doctor, max(1, floor(0.15 N)) Vampires, one
\* Jester, one Jailor iff N >= 6, and Citizens for the rest; at least one
\* Vampire is assigned.
C26_DefaultRoles ==
  state = "LOBBY" =>
    \A g \in assignRoles(G, defaultConfig) :
      LET N == Cardinality(Roster(G))
          b == roleBag(g)
      IN /\ \A p \in Roster(g) : g.players[p].role \in Roles
         /\ b["Investigator"] = max2(1, N \div 10)
         /\ b["Lookout"] = max2(1, N \div 10)
         /\ b["Doctor"] = max2(1, N \div 10)
         /\ b["Vampire"] = max2(1, (15 * N) \div 100)
         /\ b["Jester"] = 1
         /\ b["Jailor"] = (IF N >= 6 THEN 1 ELSE 0)
         /\ b["Vampire Framer"] = 0
         /\ b["Vampire"] >= 1

\* C27: in a step of resolveNight with a living prisoner pr of the Jailor j:
\* if j's ledger entry is EXECUTE, pr dies in the step; if moreover pr is
\* good-aligned, the win check of the step counts j as alive (the game ends
\* iff the roster with j alive meets a win condition, and then j is not
\* killed) and j is dead when the step enters DAY_DISCUSS, in the same round;
\* if pr is not good-aligned j is not killed; and without an EXECUTE entry
\* pr stays alive.
C27_Execution ==
  [][(/\ nightStep
      /\ jailedPlayerId \in rosterIds /\ jailorId \in rosterIds
      /\ players[jailedPlayerId].alive /\ players[jailorId].alive)
     => LET pr == jailedPlayerId
            j == jailorId
            counted == [players' EXCEPT ![j].alive = TRUE]
        IN IF j \in DOMAIN nightActions /\ nightActions[j].type = "EXECUTE"
           THEN /\ ~players'[pr].alive
                /\ players[pr].alignment = "good" =>
                     /\ state' = "GAME_OVER" <=> winConditionOn(counted)
                     /\ state' = "GAME_OVER" => players'[j].alive
                     /\ state' # "GAME_OVER" =>
                          /\ state' = "DAY_DISCUSS" /\ round' = round
                          /\ ~players'[j].alive
                /\ players[pr].alignment # "good" => players'[j].alive
           ELSE players'[pr].alive]_vars

\* C28: when the oracle call of an NPC callback fails (empty object or
\* throw), the callback writes no ledger entry, sets no jail state and casts
\* no vote (the VoteMap gains or changes no entry), and the phase and its
\* countdown are as before.
C28_OracleFailure ==
  \A c \in npcPending :
    c.stage = "await" =>
      \A g \in oracleFailure(G, c) :
        /\ g.nightActions = nightActions
        /\ g.jailedPlayerId = jailedPlayerId /\ g.jailorId = jailorId
        /\ g.jailorPendingDeath = jailorPendingDeath
        /\ \A v \in DOMAIN g.votes : v \in DOMAIN votes /\ g.votes[v] = votes[v]
        /\ g.state = state /\ g.round = round /\ g.timer = timer
        /\ g.interval = interval /\ g.timerCallback = timerCallback
        /\ g.intervals = intervals

\* C29: every step that enters DAY_DISCUSS leaves the ledger and the framed
\* set empty, jailedPlayerId and jailorId null and the guilt flag false; and
\* every step that enters NIGHT (of a new round) leaves jailedPlayerId and
\* jailorId null and the guilt flag false.
C29_RoundStateCleared ==
  [][/\ (state # "DAY_DISCUSS" /\ state' = "DAY_DISCUSS") =>
          /\ nightActions' = EmptyMap
          /\ framedPlayers' = {}
          /\ jailedPlayerId' = Null /\ jailorId' = Null
          /\ ~jailorPendingDeath'
     /\ (state' = "NIGHT" /\ round' = round + 1) =>
          /\ jailedPlayerId' = Null /\ jailorId' = Null
          /\ ~jailorPendingDeath']_vars

\* C30: once resolveNight has run in a round, running it again on the ledger
\* it left changes no player (no further healsRemaining decrement, no second
\* turn, no second death) and sets no guilt flag.
C30_ResolveNightIdempotent ==
  (nightRuns = 1 /\ state \in {"DAY_DISCUSS", "GAME_OVER"} /\ ~crashed) =>
    \A g \in resolveNight(G) :
      /\ g.players = players
      /\ g.jailorPendingDeath = jailorPendingDeath

\* C31: a message sent during NIGHT reaches vampires only: its chat_update
\* goes to players whose role is Vampire or Vampire Framer, and the gameChat
\* field of the game_update that a night_action broadcasts to a player of
\* another role holds no vampire chat message.
C31_VampireChatPrivate ==
  [][/\ (state = "NIGHT" /\ Len(gameChat') = Len(gameChat) + 1) =>
          \A r \in chatUpdate(G, gameChat'[Len(gameChat')].senderId) :
            isVampireRole(players[r].role)
     /\ (state = "NIGHT" /\ state' = "NIGHT" /\ nightActions' # nightActions) =>
          \A r \in DOMAIN players' :
            (players'[r].inRoster /\ ~players'[r].isNPC
               /\ ~isVampireRole(players'[r].role)) =>
              \A i \in DOMAIN viewFor(G, r)'.gameChat :
                ~viewFor(G, r)'.gameChat[i].isVampireChat]_vars

\* the rule of the NPC role restriction on every assignment from the lobby G;
\* exempt(role) says which disallowed role an NPC may be left with
restrictionRule(exempt(_)) ==
  state = "LOBBY" =>
    \A cfg \in NpcConfigs : \A d \in Restrictions :
      \A g1 \in assignRoles(G, cfg) :
        LET g == npcAllowedRoles(g1, d)
            npcs == {p \in Roster(g) : g.players[p].isNPC}
            humans == Roster(g) \ npcs
        IN /\ \A p \in npcs :
                g.players[p].role \in d =>
                  /\ exempt(g.players[p].role)
                  /\ \A h \in humans : g.players[h].role \in d
           /\ \A p \in npcs : g1.players[p].role \notin d =>
                g.players[p].role = g1.players[p].role
           /\ \A p \in Roster(g) :
                /\ g.players[p].alignment = roleAlignments(g.players[p].role)
                /\ g.players[p].healsRemaining =
                     (IF g.players[p].role = "Doctor" THEN 3 ELSE Undefined)
           /\ (\E h \in humans : g.players[h].role \notin d) => roleBag(g) = roleBag(g1)

never(role) == FALSE
fallback(role) == role = "Citizen"

\* C32 as stated: after assignRoles with an NPC role restriction no NPC holds
\* a disallowed role; an NPC drawn with an allowed role keeps it, every
\* player has the alignment and heals of its role, and as long as a human
\* with an allowed role is left (every NPC swapped) the multiset of roles is
\* the one drawn.
C32_AsStated == restrictionRule(never)

\* C32: the same, an NPC being left with a disallowed role only when that
\* role is Citizen and no human holds an allowed role.
C32_NpcRestriction == restrictionRule(fallback)

\* a game started with Vampire disallowed for NPCs in which an NPC is not a
\* Vampire, a human is, and the configuration asked for a Vampire
C32_Witness ==
  /\ state = "NIGHT"
  /\ \E p \in rosterIds : players[p].isNPC /\ players[p].role = "Doctor"
  /\ \E h \in rosterIds : ~players[h].isNPC /\ players[h].role = "Vampire"
  /\ \A p \in rosterIds : players[p].isNPC => players[p].role # "Vampire"

\* the alignment the Role Catalog gives a role
catalogAlignment(role) ==
  IF role \in {"Vampire", "Vampire Framer"} THEN "evil"
  ELSE IF role = "Jester" THEN "neutral" ELSE "good"

\* C33: in every reachable state every player whose role is a Role Catalog
\* role has the alignment the catalog gives that role.
C33_CatalogAlignment ==
  \A p \in DOMAIN players :
    players[p].role \in Roles => players[p].alignment = catalogAlignment(players[p].role)

\* an NPC demoted to Citizen next to a player turned Vampire or given a role
\* by the host
C33_Witness ==
  /\ state \notin {"LOBBY", "GAME_OVER"}
  /\ \E p \in rosterIds : players[p].isNPC /\ players[p].role = "Citizen"
  /\ Cardinality({p \in rosterIds : players[p].role = "Vampire"}) >= 2

\* the resolution order in a step, frames the keys of the FRAME entries that
\* count
reportsInOrder(frames) ==
  nightStep =>
    \A k \in DOMAIN investigationResults' :
      nightActions[k].type = "INVESTIGATE" =>
        LET t == nightActions[k].targetId
        IN /\ (t \notin framedPlayers' /\ t \in rosterIds) =>
                investigationResults'[k].role = players'[t].role
           /\ (\E j \in frames : nightActions[j].targetId = t) =>
                investigationResults'[k].role = "Vampire"

frameEntries == {j \in DOMAIN nightActions : nightActions[j].type = "FRAME"}
ofLivingFramer ==
  {j \in frameEntries :
     LET a == nightActions[j].actorId
     IN a \in rosterIds /\ players[a].role = "Vampire Framer" /\ players[a].alive}

actorsOn(t) == {ownerOf(j) : j \in {i \in DOMAIN nightActions : nightActions[i].targetId = t}}

\* C35: the result of every LOOKOUT entry on a target lists exactly the
\* actors, human or NPC, that have a ledger entry on that target when the
\* night is resolved, the lookout excluded (and so says that no one visited
\* exactly when there is no such actor).
C35_LookoutVisitors ==
  [][nightStep =>
       \A k \in DOMAIN investigationResults' :
         nightActions[k].type = "LOOKOUT" =>
           investigationResults'[k].visitors = actorsOn(nightActions[k].targetId) \ {k}]_vars

\* the ledger entry under key k, if any
entryAt(g, k) == IF k \in LedgerKeys(g) THEN <<g.nightActions[k]>> ELSE << >>

\* C36: in every state of a night, a FRAME message of a Vampire Framer,
\* submitting or cancelling, leaves the actor's BITE entry as it is, and a
\* BITE message, submitting or cancelling, leaves the actor's FRAME entry as
\* it is (a cancelled FRAME with no FRAME entry included).
C36_FrameBiteIndependent ==
  state = "NIGHT" =>
    \A p \in rosterIds :
      players[p].role = "Vampire Framer" =>
        \A t \in LedgerTargets \cup {Null} : \A clear \in BOOLEAN :
          /\ (p \in DOMAIN nightActions => nightActions[p].type = "BITE") =>
               entryAt(nightAction(G, p, [type |-> "FRAME", targetId |-> t,
                                           clear |-> clear]), p) = entryAt(G, p)
          /\ entryAt(nightAction(G, p, [type |-> "BITE", targetId |-> t,
                                        clear |-> clear]), frameKey(p))
               = entryAt(G, frameKey(p))

\* C37: the player killed by the Jailor's execution when a night is resolved
\* is the prisoner named by the Jailor's EXECUTE entry, which records who was
\* the prisoner when the EXECUTE was submitted: nobody dies by execution
\* without an EXECUTE submitted while they were the prisoner.
C37_ExecutedWasPrisoner ==
  [][nightStep =>
       \A p \in died :
         p = jailedPlayerId =>
           /\ jailorId \in DOMAIN nightActions
           /\ nightActions[jailorId].type = "EXECUTE"
           /\ nightActions[jailorId].targetId = p]_vars

\* C38: whenever the votes can be resolved, every VoteMap entry names a
\* living roster member, the player resolveVoting would lynch is in the
\* roster and alive, and a resolution that ends in the Jester win lynches a
\* living Jester.
C38_LynchedWasAlive ==
  (state = "DAY_VOTE" /\ ~crashed) =>
    /\ \A t \in lynchDraws(G) \ {Null} : t \in rosterIds /\ players[t].alive
    /\ \A g \in resolveVoting(G) :
         g.winner = "Jester" =>
           \E p \in rosterIds : players[p].role = "Jester" /\ players[p].alive
    /\ \A v \in DOMAIN votes : votes[v] \in rosterIds /\ players[votes[v]].alive

\* C39: after every step the winner is set exactly when the state is
\* GAME_OVER, and a winner that is set is never changed by a later event.
C39_WinnerFinal ==
  [][/\ (winner' # "null") <=> (state' = "GAME_OVER")
     /\ winner # "null" => winner' = winner]_vars

====
